---- MODULE Spec2Model ----
(***************************************************************************)
(* A model of caldp's orchestration and fault-handling layer:              *)
(*   - sysexit.py : exit_on_exception (guard), exit_receiver               *)
(*   - process.py : Manager.run and the job's phases                       *)
(*   - messages.py: the Messages status markers                            *)
(***************************************************************************)
EXTENDS Integers, Sequences, FiniteSets, TLC

VARIABLES
    \* the guarded-block runtime (sysexit.py)
    simulated_code,   \* int(os.environ.get("CALDP_SIMULATE_ERROR", "0"))
    guards,           \* the active exit_on_exception blocks, outermost first
    gpc,              \* "run", "unwind", "exited" or "escaped"
    exc,              \* the exception in flight, NoExc when none
    reports,          \* the Fatal Exception reports issued, in order
    exit_calls,       \* the codes handed to os._exit, in order
    raise_site,       \* where the first exception was raised (history)
    sim_hit           \* a guard was entered to which the override applies (history)

guardvars == <<simulated_code, guards, gpc, exc, reports, exit_calls, raise_site, sim_hit>>

VARIABLES
    \* the status messenger (messages.py, class Messages)
    msg_output_uri,   \* scheme of Messages.output_uri: "file" or "s3"
    stat,             \* Messages.stat
    name,             \* Messages.name ("None" when unset)
    file,             \* Messages.file (<<>> when unset)
    last_file,        \* the local last_file of process_message / final_message
    local,            \* names of the dataset's markers in the local messages directory
    remote,           \* names of the dataset's markers under s3://bucket/messages/
    mpc,              \* position inside the Messages operation in progress, "idle" when none
    last_op           \* the last Messages operation that completed (history)

msgvars == <<msg_output_uri, stat, name, file, last_file, local, remote, mpc, last_op>>

VARIABLES
    \* one job: process.py, then the metrics, then messages.main
    pc,               \* what the job does next
    manager,          \* key of MANAGERS selected for the dataset
    input_uri,        \* scheme of input_uri
    output_uri,       \* scheme of the command line's output_uri ("none" included)
    inputs,           \* the input files the source holds for the dataset
    input_files,      \* what get_input_files returned
    branch,           \* the branch calibrate took
    stage,            \* the stage Manager.run is running
    proc,             \* the Popen object of Manager.run
    runs,             \* the external programs that ran, with their exit status (history)
    fault,            \* the first fault of the job and the step it occurred in (history)
    metrics           \* the exit status on the last line of process_metrics.txt and of
                      \* preview_metrics.txt (<<>> while the file is not written), and
                      \* the files whose last line does not end in a digit

jobvars == <<pc, manager, input_uri, output_uri, inputs, input_files, branch, stage, proc,
             runs, fault, metrics>>
jobrest == <<manager, input_uri, output_uri, inputs, input_files, branch, stage, proc,
             runs, fault, metrics>>

VARIABLES
    \* one call of a function wrapped by retry (sysexit.py, retry.decor)
    max_retries,      \* retry's max_retries
    retry_args,       \* retry's min_sleep, max_sleep and backoff
    tried,            \* decor's tried
    retry_exc,        \* decor's local exc (NoExc while unbound)
    rpc,              \* position in decor: "idle", "while", "call", "except", "returned", "raised"
    retry_out,        \* the exception decor raised (NoExc: none)
    attempts,         \* what each call of func did, in order (history)
    sleeps            \* the delays slept, in order (history)

retryvars == <<max_retries, retry_args, tried, retry_exc, rpc, retry_out, attempts, sleeps>>

VARIABLES
    \* the files of one job (process.py, Manager.output_files)
    argv_output_uri,  \* the output_uri given on the command line (argv[2])
    workdir,          \* names of the files in the directory find_output_files scans
    destination,      \* the paths output_files has copied files to
    collected         \* destination after each completed output_files, in order (history)

filevars == <<argv_output_uri, workdir, destination, collected>>

VARIABLES
    \* the choice of the manager (process.py, get_manager)
    dataset,          \* the dataset name, a sequence of characters
    dataset_type,     \* what get_dataset_type returned: "ipst", "svm", "mvm"
    manager_type,     \* the key get_manager looks up in MANAGERS
    id_raised         \* type of the exception get_manager ended with, or "None"

idvars == <<dataset, dataset_type, manager_type, id_raised>>

VARIABLES
    \* the start of python -m caldp.process (process.py, __main__)
    argc,             \* len(sys.argv)
    sys_exits         \* the codes of the sys.exit calls made outside exit_receiver

entryvars == <<argc, sys_exits>>

VARIABLES
    \* the tar file of the dataset that get_objects downloads (process.py)
    archive           \* file: what is on disk under key; extract: how extraction ended

tarvars == <<archive>>

VARIABLES
    \* two Messages objects over one messages directory and one bucket (messages.py)
    msgs,             \* per job: dataset, stat, name, file, last_file, mpc
    space,            \* local: the paths of the files on disk; remote: the keys under messages/
    touch             \* the job of the last step and the names it wrote or removed (history)

sharevars == <<msgs, space, touch>>

VARIABLES
    \* one ProgressPercentage object called back by the threads of a transfer (file_ops.py)
    lock,             \* the thread that holds self._lock, 0 when it is free
    seen_so_far,      \* self._seen_so_far
    calls,            \* per thread: position in __call__, bytes_amount, the value loaded
                      \* by +=, and the number of calls made
    reported          \* the sum of the bytes_amount of the calls made (history)

progvars == <<lock, seen_so_far, calls, reported>>

VARIABLES
    \* process_datasets over the datasets of one command line (process.py)
    datasets,         \* len(argv[3:])
    current,          \* the index of the dataset of the loop, 0 before the loop
    started,          \* the datasets process() was called for, in order (history)
    handled          \* per dataset started: whether its marker was written, the status of
                      \* its stage program, what its processing raised (history)

loopvars == <<datasets, current, started, handled>>

VARIABLES
    \* one call of file_ops.tar_outputs(dataset, input_uri, output_uri)
    tar_pc,           \* the statement of tar_outputs to execute next
    tar_disk,         \* the files under the output and the input directory
    file_list,        \* tar_outputs' file_list
    tar_removed,      \* the files removed so far (history)
    tar_exc           \* the exception that left tar_outputs (NoExc: none)

tarballvars == <<tar_pc, tar_disk, file_list, tar_removed, tar_exc>>

VARIABLES
    \* messages.main
    cleaned           \* the folders of the working directory clean_up removed (history)

cleanvars == <<cleaned>>

\* the variables of the parts beside the job
sidevars == <<progvars, loopvars, tarballvars, cleanvars>>

\* the variables most steps of a job leave alone
auxvars == <<retryvars, idvars, entryvars, tarvars, sharevars, sidevars>>

(***************************************************************************)
(* Exit codes (caldp.exit_codes).  The values printed by the doctests of   *)
(* sysexit.py are taken from there; the module itself defines the others.  *)
(***************************************************************************)
SUCCESS == 0
GENERIC_ERROR == 1
CMDLINE_ERROR == 2
INPUT_TAR_FILE_ERROR == 21
ASTROQUERY_ERROR == 22
STAGE1_ERROR == 23
STAGE2_ERROR == 24
S3_UPLOAD_ERROR == 25
S3_DOWNLOAD_ERROR == 26
BESTREFS_ERROR == 27
CREATE_PREVIEWS_ERROR == 28
SVM_ERROR == 29
MVM_ERROR == 30
SUBPROCESS_MEMORY_ERROR == 31
CALDP_MEMORY_ERROR == 32
CONTAINER_MEMORY_ERROR == 33
OS_MEMORY_ERROR == 34

StageCodes == {BESTREFS_ERROR, STAGE1_ERROR, STAGE2_ERROR, SVM_ERROR, MVM_ERROR}
IoCodes == {ASTROQUERY_ERROR, S3_DOWNLOAD_ERROR, S3_UPLOAD_ERROR, INPUT_TAR_FILE_ERROR}
MemoryCodes == {SUBPROCESS_MEMORY_ERROR, CALDP_MEMORY_ERROR, CONTAINER_MEMORY_ERROR,
                OS_MEMORY_ERROR}
FaultCodes == StageCodes \cup IoCodes \cup MemoryCodes

(***************************************************************************)
(* Exceptions.  A text is a sequence of tokens; the tokens are chosen so   *)
(* that the substring the code looks for falls on token boundaries.        *)
(***************************************************************************)
NoText == <<>>
CannotAllocateMemory == <<"Cannot", " ", "allocate", " ", "memory">>

Exc(type, text, returncode, code) ==
    [type |-> type, text |-> text, returncode |-> returncode, code |-> code]

NoExc == Exc("None", NoText, 0, 0)
MemoryError == Exc("MemoryError", <<"Simulated CALDP MemoryError.">>, 0, 0)
RuntimeError == Exc("RuntimeError", <<"Simulating error">>, 0, 0)
KeyboardInterrupt == Exc("KeyboardInterrupt", NoText, 0, 0)
ValueError == Exc("ValueError", NoText, 0, 0)
TypeError == Exc("TypeError", NoText, 0, 0)
IndexError == Exc("IndexError", NoText, 0, 0)
UnboundLocalError == Exc("UnboundLocalError", NoText, 0, 0)
NotImplementedError == Exc("NotImplementedError", NoText, 0, 0)
OSError(text) == Exc("OSError", text, 0, 0)
SystemExit(code) == Exc("SystemExit", NoText, 0, code)
CaldpExit(code) == Exc("CaldpExit", NoText, 0, code)
SubprocessFailure(returncode) == Exc("SubprocessFailure", NoText, returncode, 0)

\* Python's class hierarchy for the exception types above (method resolution order).
Mro(type) ==
    CASE type = "MemoryError" -> {"MemoryError", "Exception", "BaseException"}
      [] type = "OSError" -> {"OSError", "Exception", "BaseException"}
      [] type = "RuntimeError" -> {"RuntimeError", "Exception", "BaseException"}
      [] type = "ValueError" -> {"ValueError", "Exception", "BaseException"}
      [] type = "TypeError" -> {"TypeError", "Exception", "BaseException"}
      [] type = "IndexError" -> {"IndexError", "Exception", "BaseException"}
      [] type = "UnboundLocalError" -> {"UnboundLocalError", "Exception", "BaseException"}
      [] type = "NotImplementedError" ->
            {"NotImplementedError", "RuntimeError", "Exception", "BaseException"}
      [] type = "SubprocessFailure" -> {"SubprocessFailure", "Exception", "BaseException"}
      [] type = "CaldpExit" -> {"CaldpExit", "SystemExit", "BaseException"}
      [] type = "SystemExit" -> {"SystemExit", "BaseException"}
      [] type = "KeyboardInterrupt" -> {"KeyboardInterrupt", "BaseException"}
      [] OTHER -> {}

IsInstance(e, cls) == cls \in Mro(e.type)

\* `needle in text`: some window of text equals needle.
Contains(text, needle) ==
    \E i \in 1..(Len(text) - Len(needle) + 1) :
        SubSeq(text, i, i + Len(needle) - 1) = needle

\* str(exc) + repr(exc) of an exception raised with one text argument.
StrPlusRepr(e) == e.text \o <<e.type, "('">> \o e.text \o <<"')">>

\* The index of the first except clause that matches e, 0 when none does.
FirstMatch(clauses, e) ==
    IF \E i \in 1..Len(clauses) : IsInstance(e, clauses[i])
    THEN CHOOSE i \in 1..Len(clauses) :
            /\ IsInstance(e, clauses[i])
            /\ \A j \in 1..(i - 1) : ~IsInstance(e, clauses[j])
    ELSE 0

(***************************************************************************)
(* _report_exception: one "Fatal Exception" report, with the signal line   *)
(* when the subprocess return code is negative.                            *)
(***************************************************************************)
report_exception(exit_code, args, returncode) ==
    [code |-> exit_code, args |-> args,
     signal |-> IF returncode # 0 /\ returncode < 0 THEN -returncode ELSE 0]

(***************************************************************************)
(* exit_on_exception: what the guard does before its body (the simulated   *)
(* failure) and its except clauses.                                       *)
(***************************************************************************)
\* A guard that simulates nothing.
simulate_never(sim, exit_code, alloc_fails) == NoExc

\* A guard that raises for every override, whatever its own code.
simulate_every_code(sim, exit_code, alloc_fails) ==
    IF sim = CALDP_MEMORY_ERROR THEN MemoryError
    ELSE IF sim # 0 THEN RuntimeError
    ELSE NoExc

\* alloc_fails: whether bytearray(1024 * 2**30) raises MemoryError in this run.
simulate(sim, exit_code, alloc_fails) ==
    IF sim = CALDP_MEMORY_ERROR THEN MemoryError
    ELSE IF sim = OS_MEMORY_ERROR
        THEN OSError(CannotAllocateMemory \o <<"...">>)
    ELSE IF sim = SUBPROCESS_MEMORY_ERROR THEN RuntimeError
    ELSE IF sim = CONTAINER_MEMORY_ERROR
        THEN (IF alloc_fails THEN MemoryError ELSE NoExc)
    ELSE IF exit_code = sim THEN RuntimeError
    ELSE NoExc

GuardClausesRewrap == <<"MemoryError", "OSError", "SubprocessFailure", "BaseException">>
GuardClauses == <<"MemoryError", "OSError", "CaldpExit", "SubprocessFailure", "Exception">>

Raised(e, reps) == [raise |-> e, report |-> reps]

exit_on_exception_no_remap(exit_code, args, e) ==
    LET i == FirstMatch(GuardClauses, e)
        cls == IF i = 0 THEN "none" ELSE GuardClauses[i]
    IN  IF cls \in {"none", "CaldpExit"} THEN Raised(e, <<>>)
        ELSE Raised(CaldpExit(exit_code),
                    <<report_exception(exit_code, args, e.returncode)>>)

\* The except clauses of exit_on_exception(exit_code, *args), applied to e.
exit_on_exception(exit_code, args, e) ==
    LET i == FirstMatch(GuardClauses, e)
        cls == IF i = 0 THEN "none" ELSE GuardClauses[i]
    IN  CASE cls = "none" -> Raised(e, <<>>)
          [] cls = "MemoryError" ->
                Raised(CaldpExit(CALDP_MEMORY_ERROR),
                       <<report_exception(CALDP_MEMORY_ERROR, args, 0)>>)
          [] cls = "OSError" ->
                IF Contains(StrPlusRepr(e), CannotAllocateMemory)
                THEN Raised(CaldpExit(OS_MEMORY_ERROR),
                            <<report_exception(OS_MEMORY_ERROR, args, 0)>>)
                ELSE Raised(CaldpExit(exit_code), <<report_exception(exit_code, args, 0)>>)
          [] cls = "CaldpExit" -> Raised(e, <<>>)
          [] cls = "SubprocessFailure" ->
                Raised(CaldpExit(exit_code),
                       <<report_exception(exit_code, args, e.returncode)>>)
          [] OTHER ->
                Raised(CaldpExit(exit_code), <<report_exception(exit_code, args, 0)>>)

(***************************************************************************)
(* exit_receiver: the code handed to os._exit and the report, for the      *)
(* exception e that reaches it (NoExc: the body completed).                *)
(***************************************************************************)
ReceiverClausesException == <<"CaldpExit", "MemoryError", "OSError", "Exception">>
ReceiverClauses == <<"CaldpExit", "MemoryError", "OSError", "BaseException">>

Landed(code, reps) == [exits |-> TRUE, code |-> code, report |-> reps]
Escaped == [exits |-> FALSE, code |-> 0, report |-> <<>>]

exit_receiver_generic(e) ==
    IF e = NoExc THEN Landed(SUCCESS, <<>>)
    ELSE IF IsInstance(e, "CaldpExit") THEN Landed(e.code, <<>>)
    ELSE IF IsInstance(e, "MemoryError")
        THEN Landed(CALDP_MEMORY_ERROR,
                    <<report_exception(CALDP_MEMORY_ERROR, "Untrapped memory exception.", 0)>>)
    ELSE Landed(GENERIC_ERROR,
                <<report_exception(GENERIC_ERROR, "Untrapped non-memory exception.", 0)>>)

exit_receiver(e) ==
    LET i == FirstMatch(ReceiverClauses, e)
        cls == IF i = 0 THEN "none" ELSE ReceiverClauses[i]
    IN  IF e = NoExc THEN Landed(SUCCESS, <<>>)
        ELSE CASE cls = "none" -> Escaped
          [] cls = "CaldpExit" -> Landed(e.code, <<>>)
          [] cls = "MemoryError" ->
                Landed(CALDP_MEMORY_ERROR,
                       <<report_exception(CALDP_MEMORY_ERROR,
                                          "Untrapped memory exception.", 0)>>)
          [] cls = "OSError" ->
                IF Contains(StrPlusRepr(e), CannotAllocateMemory)
                THEN Landed(OS_MEMORY_ERROR,
                            <<report_exception(OS_MEMORY_ERROR,
                                               "Untrapped OSError cannot callocate memory", 0)>>)
                ELSE Landed(GENERIC_ERROR,
                            <<report_exception(GENERIC_ERROR,
                                               "Untrapped OSError, generic.", 0)>>)
          [] OTHER ->
                Landed(GENERIC_ERROR,
                       <<report_exception(GENERIC_ERROR,
                                          "Untrapped non-memory exception.", 0)>>)

(***************************************************************************)
(* The parts of the state a specification does not use stay as follows.    *)
(***************************************************************************)
NoFile == <<>>
NoProc == [state |-> "none", status |-> <<>>, returncode |-> <<>>]
NoFault == [step |-> "none", exc |-> NoExc, simulated |-> FALSE]
NoMetrics == [process |-> <<>>, preview |-> <<>>, nodigit |-> {}]

MsgIdle ==
    /\ msg_output_uri = "file"
    /\ stat = 0
    /\ name = "None"
    /\ file = NoFile
    /\ last_file = NoFile
    /\ local = {}
    /\ remote = {}
    /\ mpc = "idle"
    /\ last_op = "none"

JobIdle ==
    /\ pc = "none"
    /\ manager = "none"
    /\ input_uri = "none"
    /\ output_uri = "none"
    /\ inputs = "empty"
    /\ input_files = "none"
    /\ branch = "none"
    /\ stage = "none"
    /\ proc = NoProc
    /\ runs = <<>>
    /\ fault = NoFault
    /\ metrics = NoMetrics

\* No tar file: nothing on disk under key, no extraction attempted.
NoArchive == [file |-> "none", extract |-> "none"]

\* get_objects: open(key, "wb") and client.download_fileobj, ended by e.
archive_after_download(e) ==
    [file |-> IF e = NoExc THEN "whole" ELSE "partial", extract |-> "none"]

\* The tar file removed however the extraction ended.
archive_after_extract_removed(e) ==
    [file |-> "removed", extract |-> IF e = NoExc THEN "done" ELSE "failed"]

\* get_objects: tar_ref.extractall() ended by e, then os.remove(key).
archive_after_extract(e) ==
    [file |-> IF e = NoExc THEN "removed" ELSE "whole",
     extract |-> IF e = NoExc THEN "done" ELSE "failed"]

\* retry's defaults: min_sleep=1, max_sleep=60, backoff=2.
DefaultRetryArgs == [min_sleep |-> 1, max_sleep |-> 60, backoff |-> 2]

RetryIdle ==
    /\ max_retries = 0
    /\ retry_args = DefaultRetryArgs
    /\ tried = 0
    /\ retry_exc = NoExc
    /\ rpc = "idle"
    /\ retry_out = NoExc
    /\ attempts = <<>>
    /\ sleeps = <<>>

FilesIdle ==
    /\ argv_output_uri = "none"
    /\ workdir = {}
    /\ destination = {}
    /\ collected = <<>>

IdIdle ==
    /\ dataset = <<>>
    /\ dataset_type = "none"
    /\ manager_type = "none"
    /\ id_raised = "None"

ProgressIdle ==
    /\ lock = 0
    /\ seen_so_far = 0
    /\ calls = <<>>
    /\ reported = 0

LoopIdle ==
    /\ datasets = 1
    /\ current = 0
    /\ started = <<>>
    /\ handled = <<>>

TarballIdle ==
    /\ tar_pc = "idle"
    /\ tar_disk = {}
    /\ file_list = {}
    /\ tar_removed = {}
    /\ tar_exc = NoExc

CleanIdle == cleaned = {}

SideIdle == ProgressIdle /\ LoopIdle /\ TarballIdle /\ CleanIdle

EntryIdle ==
    /\ SideIdle
    /\ argc = 4
    /\ sys_exits = <<>>
    /\ archive = NoArchive
    /\ msgs = <<>>
    /\ space = [local |-> {}, remote |-> {}]
    /\ touch = [job |-> 0, names |-> {}]

(***************************************************************************)
(* messages.py, class Messages.  A marker is named <state>-<dataset>; the   *)
(* model holds one dataset and names a marker by its state.  A path is     *)
(* <<directory, name>>; a bare name is a path relative to the working      *)
(* directory, which holds no marker: the markers are in msg_dir.           *)
(***************************************************************************)
MarkerNames == {"submit", "processing", "processed", "error"}
msg_dir == "messages"
cwd == "."

join(dir, n) == <<dir, n>>
basename(path) == path[Len(path)]
\* os.path.exists(path), given the names in the local messages directory.
exists(path, markers) == path # NoFile /\ path[1] = msg_dir /\ path[2] \in markers

\* clear_messages: previous_files, as passed to remove_message.
previous_files == <<join(cwd, "error"), join(cwd, "processing"), join(cwd, "processed")>>

\* remove_message(last_file): the local directory and the remote namespace afterwards.
remove_message_local(uri, path, markers) ==
    IF uri = "None" THEN markers
    ELSE IF exists(path, markers) THEN markers \ {basename(path)}
    ELSE markers
remove_message_remote(uri, path, objects) ==
    IF uri = "None" THEN objects
    ELSE IF uri = "s3" THEN objects \ {basename(path)}
    ELSE objects

\* write_message that creates no file.
write_message_nothing(path, markers) == markers
\* write_message: open(self.file, "w").
write_message(path, markers) == markers \cup {basename(path)}
\* upload_message: client.upload_fileobj(f, bucket, "messages/" + self.name).
upload_message(uri, n, objects) == IF uri = "s3" THEN objects \cup {n} ELSE objects

\* The trailing digit of an exit status, as final_message reads it from the last
\* line of a metrics file ("Exit status: <n>"): the last character, as an int.
tail_digit(status) == (IF status < 0 THEN -status ELSE status) % 10

\* init(): os.makedirs, then clear_messages starts.
init_call ==
    /\ pc = "msg.init"
    /\ mpc = "idle"
    /\ mpc' = "clear 1"
    /\ UNCHANGED <<msg_output_uri, stat, name, file, last_file, local, remote, last_op>>
    /\ UNCHANGED <<filevars, auxvars, guardvars, jobvars>>

ClearStep == <<"clear 1", "clear 2", "clear 3">>

\* clear_messages: one remove_message(f) of its loop.
clear_messages ==
    \E i \in 1..Len(previous_files) :
        /\ mpc = ClearStep[i]
        /\ local' = remove_message_local(msg_output_uri, previous_files[i], local)
        /\ remote' = remove_message_remote(msg_output_uri, previous_files[i], remote)
        /\ mpc' = IF i < Len(previous_files) THEN ClearStep[i + 1] ELSE "init set"
        /\ UNCHANGED <<msg_output_uri, stat, name, file, last_file, last_op>>
        /\ UNCHANGED <<filevars, auxvars, guardvars, jobvars>>

\* init() setting the submitted state whatever stat is.
init_set_always ==
    /\ mpc = "init set"
    /\ name' = "submit"
    /\ file' = join(msg_dir, "submit")
    /\ stat' = 1
    /\ mpc' = "idle"
    /\ last_op' = "init"
    /\ pc' = "msg.process_message"
    /\ UNCHANGED <<msg_output_uri, last_file, local, remote>>
    /\ UNCHANGED <<filevars, auxvars, guardvars, jobrest>>

\* init(): the rest, after clear_messages.
init_set ==
    /\ mpc = "init set"
    /\ IF stat = 0
       THEN /\ name' = "submit"
            /\ file' = join(msg_dir, "submit")
            /\ stat' = stat + 1
       ELSE UNCHANGED <<name, file, stat>>
    /\ mpc' = "idle"
    /\ last_op' = "init"
    /\ pc' = "msg.process_message"
    /\ UNCHANGED <<msg_output_uri, last_file, local, remote>>
    /\ UNCHANGED <<filevars, auxvars, guardvars, jobrest>>

\* process_message(): up to the call of write_message.
process_message_call ==
    /\ pc = "msg.process_message"
    /\ mpc = "idle"
    /\ last_file' = file
    /\ IF stat = 1
       THEN /\ name' = "processing"
            /\ file' = join(msg_dir, "processing")
            /\ mpc' = "pm write"
            /\ UNCHANGED pc
       ELSE /\ pc' = "get_manager"
            /\ UNCHANGED <<name, file, mpc>>
    /\ UNCHANGED <<msg_output_uri, stat, local, remote, last_op>>
    /\ UNCHANGED <<filevars, auxvars, guardvars, jobrest>>

process_message_write ==
    /\ mpc = "pm write"
    /\ local' = write_message(file, local)
    /\ mpc' = "pm remove"
    /\ UNCHANGED <<msg_output_uri, stat, name, file, last_file, remote, last_op>>
    /\ UNCHANGED <<filevars, auxvars, guardvars, jobvars>>

process_message_remove ==
    /\ mpc = "pm remove"
    /\ local' = remove_message_local(msg_output_uri, last_file, local)
    /\ remote' = remove_message_remote(msg_output_uri, last_file, remote)
    /\ stat' = stat + 1
    /\ mpc' = "pm upload"
    /\ UNCHANGED <<msg_output_uri, name, file, last_file, last_op>>
    /\ UNCHANGED <<filevars, auxvars, guardvars, jobvars>>

process_message_upload ==
    /\ mpc = "pm upload"
    /\ remote' = upload_message(msg_output_uri, name, remote)
    /\ mpc' = "idle"
    /\ last_op' = "process_message"
    /\ pc' = "get_manager"
    /\ UNCHANGED <<msg_output_uri, stat, name, file, last_file, local>>
    /\ UNCHANGED <<filevars, auxvars, guardvars, jobrest>>

\* A preview_message that sets stat and leaves name and file.
preview_message_stat_only ==
    /\ pc = "msg.preview_message"
    /\ stat' = 2
    /\ pc' = "msg.final_message"
    /\ UNCHANGED <<msg_output_uri, name, file, last_file, local, remote, mpc, last_op>>
    /\ UNCHANGED <<filevars, auxvars, guardvars, jobrest>>

\* preview_message()
preview_message ==
    /\ pc = "msg.preview_message"
    /\ stat' = 2
    /\ name' = "processing"
    /\ file' = join(msg_dir, "processing")
    /\ pc' = "msg.final_message"
    /\ UNCHANGED <<msg_output_uri, last_file, local, remote, mpc, last_op>>
    /\ UNCHANGED <<filevars, auxvars, guardvars, jobrest>>

\* final_message() with the process metrics alone deciding the outcome.
final_message_call_process_only ==
    /\ pc = "msg.final_message"
    /\ mpc = "idle"
    /\ metrics.process # <<>> /\ metrics.preview # <<>>
    /\ IF tail_digit(metrics.process[1]) > 0
       THEN name' = "error" /\ stat' = -1
       ELSE name' = "processed" /\ stat' = stat + 1
    /\ last_file' = file
    /\ file' = join(msg_dir, name')
    /\ mpc' = "fm write"
    /\ UNCHANGED <<pc, msg_output_uri, local, remote, last_op>>
    /\ UNCHANGED <<filevars, auxvars, guardvars, jobrest>>

\* A final_message that takes the status of a file it found without int().
readable_if_present(m, f) == m[f] # <<>>
\* final_message: open(), readlines()[-1]...[-1] and int() give the status of a
\* metrics file; a file os.walk did not find leaves its path unbound, and int()
\* refuses a last character that is not a digit.
readable(m, f) == m[f] # <<>> /\ f \notin m.nodigit

\* final_message(): up to the call of write_message.
final_message_call ==
    /\ pc = "msg.final_message"
    /\ mpc = "idle"
    /\ IF stat = 2
       THEN IF readable(metrics, "process") /\ readable(metrics, "preview")
            THEN LET proc_stat == tail_digit(metrics.process[1])
                     prev_stat == tail_digit(metrics.preview[1])
                     result == proc_stat + prev_stat
                 IN  /\ IF result > 0
                        THEN name' = "error" /\ stat' = -1
                        ELSE name' = "processed" /\ stat' = stat + 1
                     /\ last_file' = file
                     /\ file' = join(msg_dir, name')
                     /\ mpc' = "fm write"
                     /\ UNCHANGED pc
            ELSE /\ pc' = "raised"
                 /\ UNCHANGED <<stat, name, file, last_file, mpc>>
       ELSE /\ pc' = "clean_up"
            /\ UNCHANGED <<stat, name, file, last_file, mpc>>
    /\ UNCHANGED <<msg_output_uri, local, remote, last_op>>
    /\ UNCHANGED <<filevars, auxvars, guardvars, jobrest>>

final_message_write ==
    /\ mpc = "fm write"
    /\ local' = write_message(file, local)
    /\ mpc' = "fm remove"
    /\ UNCHANGED <<msg_output_uri, stat, name, file, last_file, remote, last_op>>
    /\ UNCHANGED <<filevars, auxvars, guardvars, jobvars>>

final_message_remove ==
    /\ mpc = "fm remove"
    /\ local' = remove_message_local(msg_output_uri, last_file, local)
    /\ remote' = remove_message_remote(msg_output_uri, last_file, remote)
    /\ mpc' = "fm sync"
    /\ UNCHANGED <<msg_output_uri, stat, name, file, last_file, last_op>>
    /\ UNCHANGED <<filevars, auxvars, guardvars, jobvars>>

\* sync_dataset(): rewrites or extends the marker file's content; the file stays.
final_message_sync ==
    /\ mpc = "fm sync"
    /\ local' = write_message(file, local)
    /\ mpc' = "fm upload"
    /\ UNCHANGED <<msg_output_uri, stat, name, file, last_file, remote, last_op>>
    /\ UNCHANGED <<filevars, auxvars, guardvars, jobvars>>

final_message_upload ==
    /\ mpc = "fm upload"
    /\ remote' = upload_message(msg_output_uri, name, remote)
    /\ mpc' = "idle"
    /\ last_op' = "final_message"
    /\ pc' = "clean_up"
    /\ UNCHANGED <<msg_output_uri, stat, name, file, last_file, local>>
    /\ UNCHANGED <<filevars, auxvars, guardvars, jobrest>>

\* A messages.main that removes the three folders whatever the uris are.
clean_up_folders_all(in_uri, out_uri) == {"outputs", "messages", "inputs"}
\* messages.main: the folders its clean_up calls remove.
clean_up_folders(in_uri, out_uri) ==
    IF out_uri = "s3"
    THEN {"outputs", "messages"} \cup (IF in_uri # "file" THEN {"inputs"} ELSE {})
    ELSE {}

\* messages.main: the clean_up calls after final_message.
clean_up ==
    /\ pc = "clean_up"
    /\ cleaned' = cleaned \cup clean_up_folders(input_uri, msg_output_uri)
    /\ local' = IF "messages" \in cleaned' THEN {} ELSE local
    /\ pc' = "done"
    /\ UNCHANGED <<msg_output_uri, stat, name, file, last_file, remote, mpc, last_op>>
    /\ UNCHANGED <<retryvars, idvars, entryvars, tarvars, sharevars, progvars, loopvars,
                   tarballvars>>
    /\ UNCHANGED <<filevars, guardvars, jobrest>>

(***************************************************************************)
(* The guarded-block runtime as a state machine: a program that enters     *)
(* and leaves exit_on_exception blocks, nested up to MaxDepth, and raises   *)
(* exceptions, all under one exit_receiver.                                *)
(***************************************************************************)
MaxDepth == 2

ReturnCodes == {1, 5, -8}
OsErrorTexts == {CannotAllocateMemory \o <<"...">>,
                 <<"[Errno 12] ">> \o CannotAllocateMemory,
                 <<"Something other than memory">>,
                 <<"Cannot", " ", "allocate">>}
BodyExceptions ==
    {MemoryError, RuntimeError, KeyboardInterrupt, SystemExit(CMDLINE_ERROR)}
        \cup {OSError(t) : t \in OsErrorTexts}
        \cup {SubprocessFailure(r) : r \in ReturnCodes}

GuardCodes == {STAGE1_ERROR, BESTREFS_ERROR, SUBPROCESS_MEMORY_ERROR, CONTAINER_MEMORY_ERROR}
SimulatedCodes == {0, 999} \cup GuardCodes \cup {CALDP_MEMORY_ERROR, OS_MEMORY_ERROR}
GuardArgs == <<"guard 1", "guard 2", "guard 3", "guard 4">>

\* depth: the number of blocks open at the raise; code, args: the innermost one's;
\* enclosing: the codes of the blocks around the innermost one.
NoSite == [depth |-> -1, exc |-> NoExc, code |-> 0, args |-> "", enclosing |-> <<>>]
Site(depth, e, code, args, enclosing) ==
    [depth |-> depth, exc |-> e, code |-> code, args |-> args, enclosing |-> enclosing]
Codes(gs) == [i \in 1..Len(gs) |-> gs[i].code]

GuardInit ==
    /\ simulated_code \in SimulatedCodes
    /\ guards = <<>>
    /\ gpc = "run"
    /\ exc = NoExc
    /\ reports = <<>>
    /\ exit_calls = <<>>
    /\ raise_site = NoSite
    /\ sim_hit = FALSE
    /\ MsgIdle
    /\ JobIdle
    /\ RetryIdle
    /\ IdIdle
    /\ EntryIdle
    /\ FilesIdle

\* with exit_on_exception(exit_code, args): the code before the yield.
EnterGuard ==
    /\ gpc = "run"
    /\ Len(guards) < MaxDepth
    /\ \E exit_code \in GuardCodes, alloc_fails \in BOOLEAN :
         LET args == GuardArgs[Len(guards) + 1]
             e == simulate(simulated_code, exit_code, alloc_fails)
             r == exit_on_exception(exit_code, args, e)
         IN  /\ sim_hit' = (sim_hit \/ simulated_code \in MemoryCodes
                                    \/ simulated_code = exit_code)
             /\ IF e = NoExc
                THEN /\ guards' = Append(guards, [code |-> exit_code, args |-> args])
                     /\ UNCHANGED <<gpc, exc, reports, raise_site>>
                ELSE /\ exc' = r.raise
                     /\ reports' = reports \o r.report
                     /\ gpc' = "unwind"
                     /\ raise_site' = Site(Len(guards) + 1, e, exit_code, args, Codes(guards))
                     /\ UNCHANGED guards
    /\ UNCHANGED <<filevars, auxvars, simulated_code, exit_calls, msgvars, jobvars>>

\* The body of the innermost block (or the top level) raises e.
RaiseInBody ==
    /\ gpc = "run"
    /\ \E e \in BodyExceptions :
         /\ exc' = e
         /\ raise_site' = IF guards = <<>> THEN Site(0, e, 0, "", <<>>)
                          ELSE Site(Len(guards), e, guards[Len(guards)].code,
                                    guards[Len(guards)].args,
                                    Codes(SubSeq(guards, 1, Len(guards) - 1)))
    /\ gpc' = "unwind"
    /\ UNCHANGED <<filevars, auxvars, simulated_code, guards, reports, exit_calls, sim_hit, msgvars,
                   jobvars>>

\* The innermost block completes without raising.
LeaveGuard ==
    /\ gpc = "run"
    /\ guards # <<>>
    /\ guards' = SubSeq(guards, 1, Len(guards) - 1)
    /\ UNCHANGED <<filevars, auxvars, simulated_code, gpc, exc, reports, exit_calls, raise_site, sim_hit,
                   msgvars, jobvars>>

\* The exception in flight reaches the except clauses of the innermost block.
CatchInGuard ==
    /\ gpc = "unwind"
    /\ guards # <<>>
    /\ LET g == guards[Len(guards)]
           r == exit_on_exception(g.code, g.args, exc)
       IN  /\ exc' = r.raise
           /\ reports' = reports \o r.report
    /\ guards' = SubSeq(guards, 1, Len(guards) - 1)
    /\ UNCHANGED <<filevars, auxvars, simulated_code, gpc, exit_calls, raise_site, sim_hit, msgvars,
                   jobvars>>

\* exit_receiver: the body completed, or an exception reached the top.
ExitReceiver ==
    /\ gpc \in {"run", "unwind"}
    /\ guards = <<>>
    /\ gpc = "run" => pc \in {"none", "returned"}
    /\ LET r == exit_receiver(exc)
       IN  /\ reports' = reports \o r.report
           /\ IF r.exits
              THEN /\ exit_calls' = Append(exit_calls, r.code)
                   /\ gpc' = "exited"
                   /\ exc' = NoExc
              ELSE /\ gpc' = "escaped"
                   /\ UNCHANGED <<exit_calls, exc>>
    /\ UNCHANGED <<filevars, auxvars, simulated_code, guards, raise_site, sim_hit, msgvars, jobvars>>

vars == <<guardvars, msgvars, jobvars, retryvars, filevars, idvars, entryvars, tarvars, sharevars, sidevars>>

GuardNext == EnterGuard \/ RaiseInBody \/ LeaveGuard \/ CatchInGuard \/ ExitReceiver

SpecGuard == GuardInit /\ [][GuardNext]_vars

\* No block entered, nothing raised, nothing reported.
GuardIdle ==
    /\ guards = <<>>
    /\ gpc = "run"
    /\ exc = NoExc
    /\ reports = <<>>
    /\ exit_calls = <<>>
    /\ raise_site = NoSite
    /\ sim_hit = FALSE

(***************************************************************************)
(* sysexit.retry: one call of the wrapped function decor, for a func whose *)
(* calls return or raise as the caller's environment decides.              *)
(***************************************************************************)
MaxRetries == 3

\* An except clause that catches nothing.
Qualifies_nothing(e) == FALSE
\* retry's exceptions=(Exception, SystemExit): the except clause catches e.
Qualifies(e) == IsInstance(e, "Exception") \/ IsInstance(e, "SystemExit")

\* What one call of func can do: return (NoExc) or raise.
FuncOutcomes == {NoExc, NotImplementedError, OSError(<<"Connection reset">>),
                 CaldpExit(GENERIC_ERROR), KeyboardInterrupt}

RECURSIVE Pow2(_)
Pow2(n) == IF n <= 0 THEN 1 ELSE 2 * Pow2(n - 1)
Min(a, b) == IF a < b THEN a ELSE b
Max(a, b) == IF a > b THEN a ELSE b
\* exponential_backoff(iteration) with its own defaults min_sleep=1, max_sleep=64,
\* backoff=2; twice_u is twice the value of random.uniform(0.5, 1): 1 or 2.
exponential_backoff(iteration, twice_u) ==
    Max(Min((twice_u * Pow2(iteration)) \div 2, 64), 1)

\* The min_sleep, max_sleep and backoff retry is called with.
RetryArgs ==
    {DefaultRetryArgs,
     [min_sleep |-> 5, max_sleep |-> 60, backoff |-> 2],
     [min_sleep |-> 1, max_sleep |-> 3, backoff |-> 2],
     [min_sleep |-> 1, max_sleep |-> 60, backoff |-> 3]}

\* The test of the while loop fails.
exhausted_late(t, n) == t > n
exhausted(t, n) == ~(t < n)

RetryInit ==
    /\ simulated_code = 0
    /\ GuardIdle
    /\ MsgIdle
    /\ JobIdle
    /\ FilesIdle
    /\ IdIdle
    /\ EntryIdle
    /\ max_retries \in 0..MaxRetries
    /\ retry_args \in RetryArgs
    /\ tried = 0
    /\ retry_exc = NoExc
    /\ rpc = "while"
    /\ retry_out = NoExc
    /\ attempts = <<>>
    /\ sleeps = <<>>

\* while tried < max_retries: ...; after the loop, raise exc.
retry_while ==
    /\ rpc = "while"
    /\ IF exhausted(tried, max_retries)
       THEN /\ retry_out' = IF retry_exc = NoExc THEN UnboundLocalError ELSE retry_exc
            /\ rpc' = "raised"
       ELSE /\ rpc' = "call"
            /\ UNCHANGED retry_out
    /\ UNCHANGED <<max_retries, retry_args, tried, retry_exc, attempts, sleeps>>
    /\ UNCHANGED <<sharevars, sidevars, tarvars, entryvars, idvars, filevars, guardvars, msgvars, jobvars>>

\* try: return func(*args, **kwargs), for a func that does one of outcomes.
retry_try(outcomes) ==
    /\ rpc = "call"
    /\ \E e \in outcomes :
         /\ attempts' = Append(attempts, e)
         /\ IF e = NoExc
            THEN rpc' = "returned" /\ UNCHANGED <<retry_exc, retry_out>>
            ELSE IF Qualifies(e)
            THEN rpc' = "except" /\ retry_exc' = e /\ UNCHANGED retry_out
            ELSE rpc' = "raised" /\ retry_out' = e /\ UNCHANGED retry_exc
    /\ UNCHANGED <<max_retries, retry_args, tried, sleeps>>
    /\ UNCHANGED <<sharevars, sidevars, tarvars, entryvars, idvars, filevars, guardvars, msgvars, jobvars>>

retry_call == retry_try(FuncOutcomes)

\* except exceptions as e: exc = e; tried += 1; time.sleep(exponential_backoff(tried))
retry_except ==
    /\ rpc = "except"
    /\ tried' = tried + 1
    /\ \E twice_u \in {1, 2} :
         sleeps' = Append(sleeps, exponential_backoff(tried', twice_u))
    /\ rpc' = "while"
    /\ UNCHANGED <<max_retries, retry_args, retry_exc, retry_out, attempts>>
    /\ UNCHANGED <<sharevars, sidevars, tarvars, entryvars, idvars, filevars, guardvars, msgvars, jobvars>>

RetryNext == retry_while \/ retry_call \/ retry_except

SpecRetry == RetryInit /\ [][RetryNext]_vars

(***************************************************************************)
(* One job: python -m caldp.process under exit_receiver, the metrics files *)
(* written around it, then python -m caldp.messages.                       *)
(***************************************************************************)
MANAGERS == {"acs", "cos", "stis", "wfc3", "svm", "mvm"}
InstrumentManagers == {"acs", "cos", "stis", "wfc3"}
stage2(m) == IF m \in {"acs", "wfc3"} THEN "runastrodriz" ELSE "None"
ignore_err_nums(m) == IF m = "cos" THEN {5} ELSE {}

InputSchemes == {"astroquery", "file", "s3"}
\* What the input source holds for the dataset: "missing" is a file: directory
\* that does not exist; the others name the sorted list of files found.
InputContents == {"missing", "empty", "raw", "asn"}
\* The exit status of an external program: success, failure, the status calcos
\* gives for RAWACQ, death by signal 9.
ExitStatuses == {0, 1, 5, -9}
\* The number of tar files find_input_files can find.
TarCounts == {0, 1, 2}
\* What the body of a step can raise, besides completing.
StepFailures == {RuntimeError, MemoryError}
JobSimulatedCodes == {0, STAGE1_ERROR}
StaleMarkers == {{}, {"error"}, {"processed"}}
SubmittedMarkers == {{}, {"submit"}, {"error"}}

\* The exit code Manager.run is called with, by stage.
RunCode(st) ==
    CASE st = "stage1" -> STAGE1_ERROR
      [] st = "stage2" -> STAGE2_ERROR
      [] st = "svm" -> SVM_ERROR
      [] st = "mvm" -> MVM_ERROR

\* messages.path_finder: the scheme of the output_uri it returns.
path_finder(in_uri, output_uri_prefix) ==
    IF output_uri_prefix = "None" THEN "file" ELSE output_uri_prefix

(***************************************************************************)
(* process.py, the files of a job.  A file name is the sequence of its     *)
(* parts, <<"ipppssoot", "_epc", ".fits">> for ipppssoot_epc.fits; the     *)
(* model holds one dataset, whose name is the first part of its files.     *)
(* A destination path is <<directory, subdirectory, basename>>.            *)
(***************************************************************************)
\* str.endswith(ending)
EndsWith(f, ending) ==
    /\ Len(f) >= Len(ending)
    /\ SubSeq(f, Len(f) - Len(ending) + 1, Len(f)) = ending

\* str.lower() of the output_uri given on the command line
lower(u) == IF u = "NONE" THEN "none" ELSE u

\* The values of argv[2].
OutputArgs == {"none", "NONE", "file", "s3"}

\* Manager.delete_endings: [] but for StisManager
delete_endings(m) == IF m = "stis" THEN {<<"_epc", ".fits">>} ELSE {}

\* create_file_search_patterns: output_search_patterns.  A pattern with glob
\* is <first part>*<ending>, one without is the whole name.
output_search_patterns(m) ==
    IF m \in InstrumentManagers
    THEN {[glob |-> TRUE, first |-> "ipppssoot", ending |-> <<".fits">>],
          [glob |-> TRUE, first |-> "ipppssoot", ending |-> <<".tra">>],
          [glob |-> FALSE, first |-> "ipppssoot", ending |-> <<"_cal_env", ".txt">>]}
    ELSE {[glob |-> TRUE, first |-> "hst_ipppss", ending |-> <<".fits">>],
          [glob |-> TRUE, first |-> "hst_ipppss", ending |-> <<".txt">>],
          [glob |-> TRUE, first |-> "hst_ipppss", ending |-> <<".ecsv">>],
          [glob |-> FALSE, first |-> "ipppssoot", ending |-> <<"_manifest", ".txt">>],
          [glob |-> FALSE, first |-> "astrodrizzle", ending |-> <<".log">>]}

\* glob.glob of one search string over the files of the directory
glob(dir, pattern) ==
    {f \in dir : IF pattern.glob
                 THEN f[1] = pattern.first /\ EndsWith(Tail(f), pattern.ending)
                 ELSE f = <<pattern.first>> \o pattern.ending}

\* Manager.find_output_files
find_output_files(dir, m) ==
    UNION {glob(dir, pattern) : pattern \in output_search_patterns(m)}

\* The files the acquisition of the inputs leaves in the directory: the
\* download_suffixes of the manager, or the contents of the dataset's tar file.
AcquiredFiles(m, scheme) ==
    IF m \in InstrumentManagers
    THEN {<<"ipppssoot", "_raw", ".fits">>}
         \cup (IF m = "stis" THEN {<<"ipppssoot", "_epc", ".fits">>} ELSE {})
         \cup (IF scheme = "astroquery" THEN {}
               ELSE {<<"ipppssoot", "_cal_env", ".txt">>})
    ELSE IF scheme = "astroquery" THEN {}
    ELSE {<<"ipppssoot", "_input", ".out">>, <<"hst_ipppss", "_flc", ".fits">>}

\* The files a stage's program leaves in the directory when it ends with status st.
Products(m, st) ==
    IF m \in InstrumentManagers
    THEN {<<"ipppssoot", ".tra">>}
         \cup (IF st = 0 THEN {<<"ipppssoot", "_flt", ".fits">>} ELSE {})
    ELSE {<<"astrodrizzle", ".log">>}
         \cup (IF st = 0 THEN {<<"hst_ipppss", "_drz", ".fits">>,
                               <<"ipppssoot", "_manifest", ".txt">>}
               ELSE {})

\* get_output_path(output_uri, dataset): the directory of the dataset's outputs.
get_output_path(uri) ==
    CASE uri = "None" -> "none"
      [] uri = "file" -> "file"
      [] uri = "file:outputs" -> "outputs"
      [] OTHER -> "s3"

\* output_files: the output_filename of one file under output_path.
output_filename(output_path, f) ==
    IF EndsWith(f, <<"_cal_env", ".txt">>) THEN <<output_path, "env", f>>
    ELSE <<output_path, "", f>>

\* A copy that keeps a file already at its destination and writes beside it.
copy_keep_both(dst, path) ==
    IF path \in dst THEN dst \cup {<<path[1], path[2], path[3] \o <<".1">>>>}
    ELSE dst \cup {path}

\* shutil.copy(src, dst): the file at the path is written, or written over.
copy(dst, path) == dst \cup {path}

\* upload_filepath: a file for s3 is copied to outputs/<dataset>/<basename>.
upload_filepath(dst, dest_filepath) ==
    IF dest_filepath[1] = "s3"
    THEN copy(dst, <<get_output_path("file:outputs"), "", dest_filepath[3]>>)
    ELSE copy(dst, dest_filepath)

\* The outputs copied although they no longer exist.
egress_scan_stale(found, dir, m) == found

\* output_files: `outputs = self.find_output_files()  # get again`
egress_scan(found, dir, m) == find_output_files(dir, m)

\* output_files: the loop over outputs, one upload_filepath for each.
RECURSIVE upload_all(_, _)
upload_all(dst, paths) ==
    IF paths = {} THEN dst
    ELSE LET path == CHOOSE x \in paths : TRUE
         IN  upload_all(upload_filepath(dst, path), paths \ {path})


\* len(sys.argv): without and with a dataset after the two uris.
ArgCounts == {3, 4}

Init ==
    /\ simulated_code \in JobSimulatedCodes
    /\ GuardIdle
    /\ RetryIdle
    /\ IdIdle
    /\ argc \in ArgCounts
    /\ sys_exits = <<>>
    /\ archive = NoArchive
    /\ SideIdle
    /\ msgs = <<>>
    /\ space = [local |-> {}, remote |-> {}]
    /\ touch = [job |-> 0, names |-> {}]
    /\ argv_output_uri \in OutputArgs
    /\ workdir = {}
    /\ destination = {}
    /\ collected = <<>>
    /\ msg_output_uri = "file"
    /\ stat = 0
    /\ name = "None"
    /\ file = NoFile
    /\ last_file = NoFile
    /\ mpc = "idle"
    /\ last_op = "none"
    /\ pc = "__main__"
    /\ manager \in MANAGERS
    /\ input_uri \in InputSchemes \cup {"other"}
    /\ output_uri = argv_output_uri
    /\ inputs \in IF input_uri = "file" THEN InputContents
                  ELSE InputContents \ {"missing"}
    /\ local \in StaleMarkers
    /\ remote \in IF output_uri = "s3" THEN SubmittedMarkers ELSE {{}}
    /\ input_files = "none"
    /\ branch = "none"
    /\ stage = "none"
    /\ proc = NoProc
    /\ runs = <<>>
    /\ fault = NoFault
    /\ metrics = NoMetrics

guardrest == <<simulated_code, guards, exit_calls, raise_site, sim_hit>>

\* The step completes and the job goes on with next.
Completes(next) ==
    /\ pc' = next
    /\ UNCHANGED <<gpc, exc, reports, fault>>

\* The step raises: r is what leaves the step, e what was raised in it.
Raises(step, e, r, simulated) ==
    /\ exc' = r.raise
    /\ reports' = reports \o r.report
    /\ gpc' = "unwind"
    /\ fault' = [step |-> step, exc |-> e, simulated |-> simulated]
    /\ UNCHANGED pc

\* with exit_on_exception(exit_code, args): a body that raises body_exc
\* (NoExc: completes).
Guarded(step, exit_code, args, body_exc, next) ==
    \E alloc_fails \in BOOLEAN :
        LET s == simulate(simulated_code, exit_code, alloc_fails)
            e == IF s # NoExc THEN s ELSE body_exc
        IN  IF e = NoExc THEN Completes(next)
            ELSE Raises(step, e, exit_on_exception(exit_code, args, e), s # NoExc)

\* A step outside every exit_on_exception block.
Unguarded(step, body_exc, next) ==
    IF body_exc = NoExc THEN Completes(next)
    ELSE Raises(step, body_exc, Raised(body_exc, <<>>), FALSE)

\* python -m caldp.process: with fewer than 4 arguments the usage line and
\* sys.exit(CMDLINE_ERROR), before exit_receiver is entered.
process__main__ ==
    /\ gpc = "run" /\ pc = "__main__"
    /\ IF argc < 4
       THEN /\ sys_exits' = Append(sys_exits, CMDLINE_ERROR)
            /\ pc' = "sys.exit"
       ELSE /\ pc' = "main"
            /\ UNCHANGED sys_exits
    /\ UNCHANGED <<argc, sharevars, sidevars, tarvars, retryvars, idvars, filevars, guardvars, msgvars, jobrest>>

\* process.main(argv)
main ==
    /\ gpc = "run" /\ pc = "main"
    /\ output_uri' = IF lower(output_uri) = "none" THEN "None" ELSE output_uri
    /\ pc' = "process"
    /\ UNCHANGED <<manager, input_uri, inputs, input_files, branch, stage, proc, runs,
                   fault, metrics>>
    /\ UNCHANGED <<filevars, auxvars, guardvars, msgvars>>

\* process(dataset, input_uri, output_uri), up to msg.init().
process ==
    /\ gpc = "run" /\ pc = "process"
    /\ output_uri' = IF output_uri = "None" THEN path_finder(input_uri, output_uri)
                     ELSE output_uri
    /\ msg_output_uri' = output_uri'
    /\ stat' = 0
    /\ name' = "None"
    /\ file' = NoFile
    /\ pc' = "msg.init"
    /\ UNCHANGED <<last_file, local, remote, mpc, last_op>>
    /\ UNCHANGED <<manager, input_uri, inputs, input_files, branch, stage, proc, runs,
                   fault, metrics>>
    /\ UNCHANGED <<filevars, auxvars, guardvars>>

\* get_manager, and Manager.main up to get_input_files.
get_manager ==
    /\ gpc = "run" /\ pc = "get_manager"
    /\ pc' = "get_input_files"
    /\ UNCHANGED <<filevars, auxvars, guardvars, msgvars, jobrest>>

\* The acquisition of the inputs, when it completes, leaves its files in the
\* directory find_output_files scans.
Acquire ==
    /\ workdir' = IF gpc' = "run" THEN workdir \cup AcquiredFiles(manager, input_uri)
                  ELSE workdir
    /\ UNCHANGED <<argv_output_uri, destination, collected>>

\* get_input_files: the choice by the scheme of input_uri.
get_input_files ==
    /\ gpc = "run" /\ pc = "get_input_files"
    /\ CASE input_uri = "astroquery" -> Completes("download")
         [] input_uri = "file" -> Completes("find_input_files")
         [] input_uri = "s3" -> Completes("get_objects")
         [] OTHER -> Unguarded("get_input_files", ValueError, "none")
    /\ UNCHANGED <<filevars, auxvars, guardrest, msgvars>>
    /\ UNCHANGED <<manager, input_uri, output_uri, inputs, input_files, branch, stage, proc,
                   runs, metrics>>

\* InstrumentManager.download; SvmManager and MvmManager: `pass`.
download ==
    /\ gpc = "run" /\ pc = "download"
    /\ IF manager \in InstrumentManagers
       THEN /\ \E body_exc \in {NoExc} \cup StepFailures :
                 Guarded("download", ASTROQUERY_ERROR,
                         "Astroquery exception downloading suffixes:", body_exc,
                         "process_inputs")
            /\ input_files' = IF gpc' = "run" THEN inputs ELSE input_files
       ELSE /\ Completes("process_inputs")
            /\ input_files' = "None"
    /\ Acquire
    /\ UNCHANGED <<auxvars, guardrest, msgvars>>
    /\ UNCHANGED <<manager, input_uri, output_uri, inputs, branch, stage, proc, runs, metrics>>

\* find_input_files: n tar files match; extracting the only one raises body_exc.
find_input_files ==
    /\ gpc = "run" /\ pc = "find_input_files"
    /\ IF inputs = "missing"
       THEN Unguarded("find_input_files", ValueError, "none")
       ELSE \E n \in TarCounts, body_exc \in {NoExc} \cup StepFailures :
                Guarded("find_input_files", INPUT_TAR_FILE_ERROR,
                        "Failed extracting inputs from",
                        IF n = 1 THEN body_exc ELSE RuntimeError,
                        "process_inputs")
    /\ input_files' = IF gpc' = "run" THEN inputs ELSE input_files
    /\ Acquire
    /\ UNCHANGED <<auxvars, guardrest, msgvars>>
    /\ UNCHANGED <<manager, input_uri, output_uri, inputs, branch, stage, proc, runs, metrics>>

\* get_objects: the download of the tar file.
get_objects ==
    /\ gpc = "run" /\ pc = "get_objects"
    /\ \E body_exc \in {NoExc} \cup StepFailures :
         Guarded("get_objects", S3_DOWNLOAD_ERROR, "Failed downloading or extracting",
                 body_exc, "get_objects extract")
    /\ archive' = archive_after_download(IF gpc' = "run" THEN NoExc ELSE fault'.exc)
    /\ UNCHANGED <<filevars, retryvars, idvars, entryvars, sharevars, sidevars, guardrest, msgvars>>
    /\ UNCHANGED <<manager, input_uri, output_uri, inputs, input_files, branch, stage, proc,
                   runs, metrics>>

\* get_objects: the extraction, os.remove(key) and the search for the input files.
get_objects_extract ==
    /\ gpc = "run" /\ pc = "get_objects extract"
    /\ \E body_exc \in {NoExc} \cup StepFailures :
         Guarded("get_objects", INPUT_TAR_FILE_ERROR, "Failed extracting inputs from",
                 body_exc, "process_inputs")
    /\ input_files' = IF gpc' = "run" THEN inputs ELSE input_files
    /\ archive' = archive_after_extract(IF gpc' = "run" THEN NoExc ELSE fault'.exc)
    /\ Acquire
    /\ UNCHANGED <<retryvars, idvars, entryvars, sharevars, sidevars, guardrest, msgvars>>
    /\ UNCHANGED <<manager, input_uri, output_uri, inputs, branch, stage, proc, runs, metrics>>

\* process_inputs: InstrumentManager goes on to assign_bestrefs; SvmManager and
\* MvmManager take input_files[0] and call run.
process_inputs ==
    /\ gpc = "run" /\ pc = "process_inputs"
    /\ IF manager \in InstrumentManagers
       THEN Completes("assign_bestrefs") /\ UNCHANGED stage
       ELSE CASE input_files = "None" ->
                    Unguarded("process_inputs", TypeError, "none") /\ UNCHANGED stage
              [] input_files = "empty" ->
                    Unguarded("process_inputs", IndexError, "none") /\ UNCHANGED stage
              [] OTHER -> Completes("run") /\ stage' = manager
    /\ UNCHANGED <<filevars, auxvars, guardrest, msgvars>>
    /\ UNCHANGED <<manager, input_uri, output_uri, inputs, input_files, branch, proc, runs,
                   metrics>>

\* assign_bestrefs: the block is entered and retry(bestrefs.assign_bestrefs),
\* with retry's default max_retries=3, is called.
assign_bestrefs ==
    /\ gpc = "run" /\ pc = "assign_bestrefs"
    /\ Guarded("assign_bestrefs", BESTREFS_ERROR,
               "Failed computing or downloading reference files.", NoExc,
               "assign_bestrefs retry")
    /\ IF gpc' = "run"
       THEN /\ max_retries' = 3
            /\ tried' = 0
            /\ retry_exc' = NoExc
            /\ rpc' = "while"
            /\ retry_out' = NoExc
            /\ attempts' = <<>>
            /\ sleeps' = <<>>
            /\ UNCHANGED retry_args
       ELSE UNCHANGED retryvars
    /\ UNCHANGED <<filevars, idvars, entryvars, tarvars, sharevars, sidevars, guardrest, msgvars>>
    /\ UNCHANGED <<manager, input_uri, output_uri, inputs, input_files, branch, stage, proc,
                   runs, metrics>>

\* bestrefs.assign_bestrefs, called by decor: it returns or raises.
assign_bestrefs_try ==
    /\ gpc = "run" /\ pc = "assign_bestrefs retry"
    /\ retry_try({NoExc} \cup StepFailures)

\* retry_bestrefs returned: the block completes and decor is gone; or it
\* raised, and the except clauses of the block classify what it raised.
assign_bestrefs_leave ==
    /\ gpc = "run" /\ pc = "assign_bestrefs retry"
    /\ rpc \in {"returned", "raised"}
    /\ IF rpc = "returned"
       THEN /\ Completes("calibrate")
            /\ max_retries' = 0
            /\ tried' = 0
            /\ retry_exc' = NoExc
            /\ rpc' = "idle"
            /\ retry_out' = NoExc
            /\ attempts' = <<>>
            /\ sleeps' = <<>>
            /\ UNCHANGED retry_args
       ELSE /\ Raises("assign_bestrefs", retry_out,
                      exit_on_exception(BESTREFS_ERROR,
                                        "Failed computing or downloading reference files.",
                                        retry_out), FALSE)
            /\ UNCHANGED retryvars
    /\ UNCHANGED <<filevars, idvars, entryvars, tarvars, sharevars, sidevars, guardrest, msgvars>>
    /\ UNCHANGED <<manager, input_uri, output_uri, inputs, input_files, branch, stage, proc,
                   runs, metrics>>

\* InstrumentManager.assoc_files and unassoc_files: whether the list is not empty.
assoc_files(files) == files = "asn"
unassoc_files(files) == files \in {"raw", "asn"}

\* A calibrate that takes the unassociated branch whenever it finds no association.
calibrate_branch_else(m, files) ==
    IF m = "stis" THEN (IF files = "empty" THEN "wav" ELSE "raw")
    ELSE IF assoc_files(files) THEN "assoc"
    ELSE "unassoc"

\* The branch calibrate takes: `if assoc: ... return`, `if unassoc: ... return`,
\* or the end of the function; StisManager.calibrate: `if raw: ... else: ...`.
calibrate_branch(m, files) ==
    IF m = "stis" THEN (IF files = "empty" THEN "wav" ELSE "raw")
    ELSE IF assoc_files(files) THEN "assoc"
    ELSE IF unassoc_files(files) THEN "unassoc"
    ELSE "none"

\* calibrate, up to the call of run_stage1; StisManager has its own.
calibrate ==
    /\ gpc = "run" /\ pc = "calibrate"
    /\ branch' = calibrate_branch(manager, input_files)
    /\ IF branch' = "none"
       THEN Completes("output_files") /\ UNCHANGED stage
       ELSE Completes("run") /\ stage' = "stage1"
    /\ UNCHANGED <<filevars, auxvars, guardrest, msgvars>>
    /\ UNCHANGED <<manager, input_uri, output_uri, inputs, input_files, proc, runs, metrics>>

\* Manager.run: the block is entered and subprocess.Popen(cmd) called.
run_Popen ==
    /\ gpc = "run" /\ pc = "run"
    /\ \E body_exc \in {NoExc, OSError(<<"No such file or directory">>)} :
         Guarded("run", RunCode(stage), "Command:", body_exc, "run echo")
    /\ proc' = IF gpc' = "run"
               THEN [state |-> "running", status |-> <<>>, returncode |-> <<>>]
               ELSE proc
    /\ UNCHANGED <<filevars, auxvars, guardrest, msgvars>>
    /\ UNCHANGED <<manager, input_uri, output_uri, inputs, input_files, branch, stage, runs,
                   metrics>>

\* Manager.run: `for line in p.stdout` reads to the end of the program's output;
\* the program ends with status st.  No statement here stores it in p.returncode.
run_echo ==
    /\ gpc = "run" /\ pc = "run echo"
    /\ \E st \in ExitStatuses :
         /\ proc' = [state |-> "eof", status |-> <<st>>, returncode |-> proc.returncode]
         /\ workdir' = workdir \cup Products(manager, st)
    /\ pc' = "run check"
    /\ UNCHANGED <<argv_output_uri, destination, collected>>
    /\ UNCHANGED <<auxvars, guardvars, msgvars>>
    /\ UNCHANGED <<manager, input_uri, output_uri, inputs, input_files, branch, stage, runs,
                   fault, metrics>>

\* The test of p.returncode at the end of Manager.run: None is in no list and is falsy.
returncode_check(returncode, ignore) ==
    IF returncode # <<>> /\ returncode[1] \in ignore THEN NoExc
    ELSE IF returncode # <<>> /\ returncode[1] # 0 THEN SubprocessFailure(returncode[1])
    ELSE NoExc

\* Manager.run: the test of p.returncode, the end of the block, and the caller's
\* next call: run_stage2 after run_stage1 when the manager has a stage2.
run_check ==
    /\ gpc = "run" /\ pc = "run check"
    /\ LET e == returncode_check(proc.returncode, ignore_err_nums(manager))
           again == stage = "stage1" /\ stage2(manager) # "None"
       IN  /\ runs' = Append(runs, [stage |-> stage, status |-> proc.status[1], raised |-> e])
           /\ IF e = NoExc
              THEN /\ Completes(IF again THEN "run" ELSE "output_files")
                   /\ stage' = IF again THEN "stage2" ELSE stage
              ELSE /\ Raises("run", e, exit_on_exception(RunCode(stage), "Command:", e), FALSE)
                   /\ UNCHANGED stage
    /\ proc' = NoProc
    /\ UNCHANGED <<filevars, auxvars, guardrest, msgvars>>
    /\ UNCHANGED <<manager, input_uri, output_uri, inputs, input_files, branch, metrics>>

\* The copies done when one copy of output_files fails.
PartialCopies(paths) == {{}} \cup {paths \ {path} : path \in paths}

\* Manager.output_files: the scan, the removal of the files with delete_endings,
\* the scan again, and the copy of each output; nothing is copied when output_uri
\* is None; a copy can fail.
output_files ==
    /\ gpc = "run" /\ pc = "output_files"
    /\ LET found == find_output_files(workdir, manager)
           delete == {f \in found : \E ending \in delete_endings(manager) :
                                        EndsWith(f, ending)}
           dir == workdir \ delete
           outputs == IF delete # {} THEN egress_scan(found, dir, manager) ELSE found
           output_path == get_output_path(output_uri)
           paths == {output_filename(output_path, f) : f \in outputs}
       IN  /\ workdir' = dir
           /\ IF output_uri = "None"
              THEN /\ Completes("returned")
                   /\ destination' = destination
              ELSE \E body_exc \in {NoExc} \cup StepFailures :
                     /\ Unguarded("output_files", body_exc, "returned")
                     /\ IF body_exc = NoExc
                        THEN destination' = upload_all(destination, paths)
                        ELSE \E done \in PartialCopies(paths) :
                               destination' = upload_all(destination, done)
           /\ collected' = IF gpc' = "run" THEN Append(collected, destination')
                           ELSE collected
    /\ UNCHANGED <<argv_output_uri, auxvars, guardrest, msgvars>>
    /\ UNCHANGED <<manager, input_uri, output_uri, inputs, input_files, branch, stage, proc,
                   runs, metrics>>

\* After the process phase and the preview phase, the last line of each metrics
\* file holds the phase's exit status.
write_metrics ==
    /\ gpc = "exited" /\ metrics = NoMetrics /\ pc # "none"
    /\ \E preview \in {SUCCESS, CREATE_PREVIEWS_ERROR} :
         metrics' = [process |-> <<exit_calls[Len(exit_calls)]>>, preview |-> <<preview>>,
                     nodigit |-> {}]
    /\ pc' = "messages.main"
    /\ UNCHANGED <<filevars, auxvars, guardvars, msgvars>>
    /\ UNCHANGED <<manager, input_uri, output_uri, inputs, input_files, branch, stage, proc,
                   runs, fault>>

\* messages.main, up to msg.preview_message().
messages_main ==
    /\ pc = "messages.main"
    /\ msg_output_uri' = path_finder(input_uri, output_uri)
    /\ stat' = 0
    /\ name' = "None"
    /\ file' = NoFile
    /\ pc' = "msg.preview_message"
    /\ UNCHANGED <<last_file, local, remote, mpc, last_op>>
    /\ UNCHANGED <<filevars, auxvars, guardvars, jobrest>>

Next ==
    \/ process__main__ \/ main \/ process \/ init_call \/ clear_messages \/ init_set
    \/ process_message_call \/ process_message_write \/ process_message_remove
    \/ process_message_upload
    \/ get_manager \/ get_input_files \/ download \/ find_input_files
    \/ get_objects \/ get_objects_extract
    \/ process_inputs \/ assign_bestrefs \/ retry_while \/ assign_bestrefs_try \/ retry_except
    \/ assign_bestrefs_leave \/ calibrate
    \/ run_Popen \/ run_echo \/ run_check
    \/ output_files \/ ExitReceiver \/ write_metrics
    \/ messages_main \/ preview_message
    \/ final_message_call \/ final_message_write \/ final_message_remove
    \/ final_message_sync \/ final_message_upload \/ clean_up

Spec == Init /\ [][Next]_vars

(***************************************************************************)
(* Claims about the guarded-block runtime, checked under SpecGuard.        *)
(***************************************************************************)
\* The innermost block has handled the exception raised at raise_site.
InnermostHandled == raise_site.depth >= 1 /\ Len(guards) < raise_site.depth
\* What the innermost block made of it.
Decided == exit_on_exception(raise_site.code, raise_site.args, raise_site.exc)

\* C1: an exception raised inside two or more nested exit_on_exception blocks
\* leaves as the CaldpExit of the innermost block: while it unwinds and at the
\* exit, the code is the innermost block's decision, the only report is the
\* innermost block's (its message), and no enclosing block adds a report.
C1_InnermostGuardDecides ==
    (raise_site.depth >= 2 /\ IsInstance(raise_site.exc, "Exception") /\ InnermostHandled) =>
        /\ reports = Decided.report
        /\ Len(reports) = 1
        /\ reports[1].args = raise_site.args
        /\ gpc = "unwind" => exc = Decided.raise
        /\ gpc = "exited" => exit_calls = <<Decided.raise.code>>
        /\ gpc \in {"unwind", "exited"}

\* C1 witness: a RuntimeError raised two blocks deep, the blocks having different
\* codes, ended the process with the inner block's code.
C1_Witness ==
    /\ gpc = "exited"
    /\ simulated_code = 0
    /\ raise_site.depth = 2
    /\ raise_site.exc = RuntimeError
    /\ raise_site.code = BESTREFS_ERROR
    /\ raise_site.enclosing = <<STAGE1_ERROR>>
    /\ exit_calls = <<BESTREFS_ERROR>>

MemoryTexts == {CannotAllocateMemory \o <<"...">>, <<"[Errno 12] ">> \o CannotAllocateMemory}

\* The code the claim gives for exception e under a block with exit_code.
RemappedCode(exit_code, e) ==
    IF e.type = "MemoryError" THEN CALDP_MEMORY_ERROR
    ELSE IF e.type = "OSError" /\ e.text \in MemoryTexts THEN OS_MEMORY_ERROR
    ELSE exit_code

\* C2: right after a block has handled an Exception, the exception in flight is a
\* CaldpExit whose code is CALDP_MEMORY_ERROR for a MemoryError, OS_MEMORY_ERROR
\* for an OSError whose text contains 'Cannot allocate memory', and the block's
\* own code for every other Exception.
C2_OnlyMemoryIsRemapped ==
    (gpc = "unwind" /\ raise_site.depth >= 1 /\ Len(guards) = raise_site.depth - 1
        /\ IsInstance(raise_site.exc, "Exception")) =>
        exc = CaldpExit(RemappedCode(raise_site.code, raise_site.exc))

\* C2 witness: an OSError 'Cannot allocate memory' under a STAGE1_ERROR block
\* has become CaldpExit(OS_MEMORY_ERROR), with no override set.
C2_Witness ==
    /\ gpc = "unwind"
    /\ simulated_code = 0
    /\ raise_site.exc = OSError(<<"[Errno 12] ">> \o CannotAllocateMemory)
    /\ raise_site.code = STAGE1_ERROR
    /\ Len(guards) = raise_site.depth - 1
    /\ exc = CaldpExit(OS_MEMORY_ERROR)

\* The step in which exit_receiver ends the process.
ReceiverStep == gpc # "exited" /\ gpc' = "exited"

\* C3: exit_receiver calls os._exit exactly once on every path and nothing
\* follows it: code 0 when the body completed, the carried code and no further
\* report for a CaldpExit, a fault code for any other exception; no exception
\* escapes it.
C3_ReceiverExitsOnce ==
    /\ [](/\ gpc # "escaped"
          /\ Len(exit_calls) = (IF gpc = "exited" THEN 1 ELSE 0)
          /\ gpc = "exited" => (exc = NoExc /\ ~ENABLED GuardNext)
          /\ (gpc \in {"run", "unwind"} /\ guards = <<>>) => ENABLED ExitReceiver)
    /\ [][ReceiverStep =>
            /\ exc = NoExc => exit_calls' = <<SUCCESS>>
            /\ exc.type = "CaldpExit" => (exit_calls' = <<exc.code>> /\ reports' = reports)
            /\ exc.type \notin {"None", "CaldpExit"} =>
                    \E c \in FaultCodes \cup {GENERIC_ERROR} : exit_calls' = <<c>>]_vars

\* C3 witness: a KeyboardInterrupt, which no block catches, ended the process
\* with one os._exit.
C3_Witness ==
    /\ gpc = "exited"
    /\ raise_site.exc = KeyboardInterrupt
    /\ raise_site.depth = 2
    /\ exit_calls = <<GENERIC_ERROR>>

\* C4 (as stated): with CALDP_SIMULATE_ERROR set to a fault code and a block
\* entered to which the override applies, the process exits with that code.
C4_SimulatedCodeIsExitCode ==
    (gpc = "exited" /\ simulated_code \in FaultCodes /\ sim_hit) =>
        exit_calls = <<simulated_code>>

\* The exception raised at raise_site reached exit_receiver as it was raised.
Unconverted ==
    \/ raise_site.depth = 0
    \/ raise_site.depth >= 1 /\ ~IsInstance(raise_site.exc, "Exception")

\* C5 (as stated): an unconverted exception exits with CALDP_MEMORY_ERROR if
\* it is a MemoryError and with GENERIC_ERROR otherwise.
C5_UntrappedMemoryOrGeneric ==
    (gpc = "exited" /\ Unconverted) =>
        exit_calls = <<IF raise_site.exc.type = "MemoryError"
                       THEN CALDP_MEMORY_ERROR ELSE GENERIC_ERROR>>

\* C5 (amended): an unconverted exception exits with CALDP_MEMORY_ERROR if it
\* is a MemoryError, with OS_MEMORY_ERROR if it is an OSError whose text contains
\* 'Cannot allocate memory', and with GENERIC_ERROR otherwise.
C5_UntrappedMemoryOsMemoryOrGeneric ==
    (gpc = "exited" /\ Unconverted) =>
        exit_calls = <<RemappedCode(GENERIC_ERROR, raise_site.exc)>>

\* C5 witness: an OSError 'Cannot allocate memory' raised outside every block
\* ended the process with OS_MEMORY_ERROR.
C5_Witness ==
    /\ gpc = "exited"
    /\ raise_site.depth = 0
    /\ raise_site.exc = OSError(CannotAllocateMemory \o <<"...">>)
    /\ exit_calls = <<OS_MEMORY_ERROR>>

(***************************************************************************)
(* One Messages object driven by a caller that invokes init,               *)
(* process_message, preview_message and final_message in any order, as     *)
(* message_status_check does in one order, with the metrics files of the   *)
(* moment.                                                                 *)
(***************************************************************************)
MessagesCalls ==
    {"msg.init", "msg.process_message", "msg.preview_message", "msg.final_message"}
MetricsStatuses == {SUCCESS, STAGE1_ERROR}

MessagesInit ==
    /\ simulated_code = 0
    /\ GuardIdle
    /\ RetryIdle
    /\ IdIdle
    /\ EntryIdle
    /\ FilesIdle
    /\ msg_output_uri \in {"file", "s3"}
    /\ stat = 0
    /\ name = "None"
    /\ file = NoFile
    /\ last_file = NoFile
    /\ mpc = "idle"
    /\ last_op = "none"
    /\ local \in StaleMarkers
    /\ remote \in IF msg_output_uri = "s3" THEN SubmittedMarkers ELSE {{}}
    /\ pc = "msg.init"
    /\ manager = "none"
    /\ input_uri = "none"
    /\ output_uri = msg_output_uri
    /\ inputs = "empty"
    /\ input_files = "none"
    /\ branch = "none"
    /\ stage = "none"
    /\ proc = NoProc
    /\ runs = <<>>
    /\ fault = NoFault
    /\ metrics = [process |-> <<SUCCESS>>, preview |-> <<SUCCESS>>, nodigit |-> {}]

\* The caller's next call, made when no operation is in progress.
MessagesCall ==
    /\ mpc = "idle"
    /\ pc' \in MessagesCalls
    /\ \E s \in MetricsStatuses, v \in {SUCCESS, CREATE_PREVIEWS_ERROR} :
         metrics' = [process |-> <<s>>, preview |-> <<v>>, nodigit |-> {}]
    /\ UNCHANGED <<filevars, auxvars, guardvars, msgvars>>
    /\ UNCHANGED <<manager, input_uri, output_uri, inputs, input_files, branch, stage, proc,
                   runs, fault>>

MessagesNext ==
    \/ MessagesCall \/ init_call \/ clear_messages \/ init_set
    \/ process_message_call \/ process_message_write \/ process_message_remove
    \/ process_message_upload \/ preview_message
    \/ final_message_call \/ final_message_write \/ final_message_remove
    \/ final_message_sync \/ final_message_upload

SpecMessages == MessagesInit /\ [][MessagesNext]_vars

(***************************************************************************)
(* The same Messages object and caller, with metrics files that may be     *)
(* missing or may end in a character that is not a digit.                  *)
(***************************************************************************)
MetricsFiles ==
    {[process |-> p, preview |-> v, nodigit |-> n] :
        p \in {<<>>, <<SUCCESS>>, <<STAGE1_ERROR>>},
        v \in {<<>>, <<SUCCESS>>, <<CREATE_PREVIEWS_ERROR>>},
        n \in SUBSET {"process", "preview"}}

\* The caller's next call, with the metrics files of the moment.
MetricsCall ==
    /\ mpc = "idle"
    /\ pc' \in MessagesCalls
    /\ \E m \in MetricsFiles :
         /\ \A f \in m.nodigit : m[f] # <<>>
         /\ metrics' = m
    /\ UNCHANGED <<filevars, auxvars, guardvars, msgvars>>
    /\ UNCHANGED <<manager, input_uri, output_uri, inputs, input_files, branch, stage, proc,
                   runs, fault>>

MetricsNext ==
    \/ MetricsCall \/ init_call \/ clear_messages \/ init_set
    \/ process_message_call \/ process_message_write \/ process_message_remove
    \/ process_message_upload \/ preview_message
    \/ final_message_call \/ final_message_write \/ final_message_remove
    \/ final_message_sync \/ final_message_upload

SpecMetrics == MessagesInit /\ [][MetricsNext]_vars

(***************************************************************************)
(* Manager.output_files called on a manager object, more than once, over   *)
(* the files of a directory.                                               *)
(***************************************************************************)
MaxCalls == 2

\* The files a directory can hold for the dataset.
DatasetFiles(m) == AcquiredFiles(m, "file") \cup Products(m, 0)

OutputsInit ==
    /\ simulated_code = 0
    /\ GuardIdle
    /\ MsgIdle
    /\ RetryIdle
    /\ IdIdle
    /\ EntryIdle
    /\ pc = "output_files"
    /\ manager \in MANAGERS
    /\ input_uri = "file"
    /\ output_uri \in {"None", "file", "s3"}
    /\ inputs = "raw"
    /\ input_files = "raw"
    /\ branch = "none"
    /\ stage = "none"
    /\ proc = NoProc
    /\ runs = <<>>
    /\ fault = NoFault
    /\ metrics = NoMetrics
    /\ argv_output_uri = output_uri
    /\ workdir \in SUBSET DatasetFiles(manager)
    /\ destination = {}
    /\ collected = <<>>

\* The next call of output_files on the manager, after the one before returned.
output_files_again ==
    /\ gpc = "run" /\ pc = "returned"
    /\ Len(collected) < MaxCalls
    /\ pc' = "output_files"
    /\ UNCHANGED <<filevars, auxvars, guardvars, msgvars, jobrest>>

OutputsNext == output_files \/ output_files_again

SpecOutputs == OutputsInit /\ [][OutputsNext]_vars

(***************************************************************************)
(* process.py, the choice of the manager from the dataset name.  A name    *)
(* is the sequence of its characters.                                      *)
(***************************************************************************)
LowerLetters == <<"a", "b", "c", "d", "e", "f", "g", "h", "i", "j", "k", "l", "m", "n", "o", "p", "q", "r", "s", "t", "u", "v", "w", "x", "y", "z">>
UpperLetters == <<"A", "B", "C", "D", "E", "F", "G", "H", "I", "J", "K", "L", "M", "N", "O", "P", "Q", "R", "S", "T", "U", "V", "W", "X", "Y", "Z">>
Digits == {"0", "1", "2", "3", "4", "5", "6", "7", "8", "9"}
Range(f) == {f[i] : i \in DOMAIN f}

\* [a-zA-Z0-9]
Alnum(c) == c \in Range(LowerLetters) \cup Range(UpperLetters) \cup Digits

\* str.upper() and str.lower(), of one character and of a name
upper_char(c) ==
    IF c \in Range(LowerLetters)
    THEN UpperLetters[CHOOSE i \in DOMAIN LowerLetters : LowerLetters[i] = c]
    ELSE c
lower_char(c) ==
    IF c \in Range(UpperLetters)
    THEN LowerLetters[CHOOSE i \in DOMAIN UpperLetters : UpperLetters[i] = c]
    ELSE c
lower_name(d) == [i \in DOMAIN d |-> lower_char(d[i])]

\* d[from..to] are all of the class
AllAlnum(d, from, to) == \A i \in from..to : Alnum(d[i])
AllDigits(d, from, to) == \A i \in from..to : d[i] \in Digits

IPPPSSOOT_INSTR ==
    {[letter |-> "J", name |-> "acs", chars |-> <<"a", "c", "s">>],
     [letter |-> "U", name |-> "wfpc2", chars |-> <<"w", "f", "p", "c", "2">>],
     [letter |-> "V", name |-> "hsp", chars |-> <<"h", "s", "p">>],
     [letter |-> "W", name |-> "wfpc", chars |-> <<"w", "f", "p", "c">>],
     [letter |-> "X", name |-> "foc", chars |-> <<"f", "o", "c">>],
     [letter |-> "Y", name |-> "fos", chars |-> <<"f", "o", "s">>],
     [letter |-> "Z", name |-> "hrs", chars |-> <<"h", "r", "s">>],
     [letter |-> "E", name |-> "eng", chars |-> <<"e", "n", "g">>],
     [letter |-> "F", name |-> "fgs", chars |-> <<"f", "g", "s">>],
     [letter |-> "I", name |-> "wfc3", chars |-> <<"w", "f", "c", "3">>],
     [letter |-> "N", name |-> "nicmos", chars |-> <<"n", "i", "c", "m", "o", "s">>],
     [letter |-> "O", name |-> "stis", chars |-> <<"s", "t", "i", "s">>],
     [letter |-> "L", name |-> "cos", chars |-> <<"c", "o", "s">>]}

\* A pattern that takes every letter of IPPPSSOOT_INSTR as the first character.
IPPPSSOOT_RE_every_instrument(d) ==
    /\ Len(d) = 9
    /\ upper_char(d[1]) \in {row.letter : row \in IPPPSSOOT_INSTR}
    /\ AllAlnum(d, 2, 9)

\* IPPPSSOOT_RE.match(d): ^[IJLOijlo][a-zA-Z0-9]{8,8}$, where $ also matches
\* before a newline that ends the string
IPPPSSOOT_RE(d) ==
    /\ Len(d) = 9 \/ (Len(d) = 10 /\ d[10] = "\n")
    /\ d[1] \in {"I", "J", "L", "O", "i", "j", "l", "o"}
    /\ AllAlnum(d, 2, 9)

\* SVM_RE.match(d): [a-zA-Z0-9]{3,4}_[a-zA-Z0-9]{3}_[a-zA-Z0-9]{2} at the start of d
SVM_RE(d) ==
    \E n \in {3, 4} :
        /\ Len(d) >= n + 7
        /\ AllAlnum(d, 1, n)
        /\ d[n + 1] = "_"
        /\ AllAlnum(d, n + 2, n + 4)
        /\ d[n + 5] = "_"
        /\ AllAlnum(d, n + 6, n + 7)

\* MVM_RE.match(d): skycell-p[0-9]{4}x[0-9]{2}y[0-9]{2} at the start of d
MVM_RE(d) ==
    /\ Len(d) >= 19
    /\ SubSeq(d, 1, 9) = <<"s", "k", "y", "c", "e", "l", "l", "-", "p">>
    /\ AllDigits(d, 10, 13)
    /\ d[14] = "x"
    /\ AllDigits(d, 15, 16)
    /\ d[17] = "y"
    /\ AllDigits(d, 18, 19)

\* SVM_INSTR.keys()
SVM_INSTR == {<<"a", "c", "s">>, <<"w", "f", "c", "3">>}

\* dataset.split("_")[0]
split_0(d) ==
    LET at == {i \in DOMAIN d : d[i] = "_"}
    IN  IF at = {} THEN d
        ELSE SubSeq(d, 1, (CHOOSE i \in at : \A j \in at : i <= j) - 1)

\* get_instrument(ipppssoot): "None" is dict.get's None
get_instrument(d) ==
    IF \E row \in IPPPSSOOT_INSTR : row.chars = lower_name(d)
    THEN (CHOOSE row \in IPPPSSOOT_INSTR : row.chars = lower_name(d)).name
    ELSE IF d # <<>> /\ \E row \in IPPPSSOOT_INSTR : row.letter = upper_char(d[1])
    THEN (CHOOSE row \in IPPPSSOOT_INSTR : row.letter = upper_char(d[1])).name
    ELSE "None"

\* get_dataset_type(dataset): the type, or "ValueError" when it raises
get_dataset_type(d) ==
    IF IPPPSSOOT_RE(d) THEN "ipst"
    ELSE IF SVM_RE(d) /\ split_0(d) \in SVM_INSTR THEN "svm"
    ELSE IF MVM_RE(d) THEN "mvm"
    ELSE "ValueError"

\* Dataset names: names of each kind, and each with one character replaced,
\* one character added at the end, or the last character left out.
DatasetNames ==
    {<<"j", "8", "c", "b", "0", "1", "0", "b", "0">>,
     <<"I", "8", "C", "B", "0", "1", "0", "B", "0">>,
     <<"o", "8", "j", "h", "g", "2", "n", "j", "q">>,
     <<"l", "c", "7", "p", "0", "1", "r", "y", "q">>,
     <<"n", "8", "c", "b", "0", "1", "0", "b", "0">>,
     <<"a", "c", "s", "_", "8", "p", "h", "_", "0", "1">>,
     <<"w", "f", "c", "3", "_", "8", "p", "h", "_", "0", "1">>,
     <<"c", "o", "s", "_", "8", "p", "h", "_", "0", "1">>,
     <<"s", "k", "y", "c", "e", "l", "l", "-", "p", "0", "7", "9", "7", "x", "1", "4", "y", "0", "5">>}
OtherCharacters == {"_", "-", "x", "0", "\n", " "}
Datasets ==
    DatasetNames
    \cup UNION {{[d EXCEPT ![i] = c] : i \in 1..Len(d), c \in OtherCharacters} :
                    d \in DatasetNames}
    \cup {Append(d, c) : d \in DatasetNames, c \in OtherCharacters}
    \cup {SubSeq(d, 1, Len(d) - 1) : d \in DatasetNames}

ClassifyInit ==
    /\ simulated_code = 0
    /\ GuardIdle
    /\ MsgIdle
    /\ RetryIdle
    /\ FilesIdle
    /\ EntryIdle
    /\ pc = "get_dataset_type"
    /\ manager = "none"
    /\ input_uri = "none"
    /\ output_uri = "none"
    /\ inputs = "empty"
    /\ input_files = "none"
    /\ branch = "none"
    /\ stage = "none"
    /\ proc = NoProc
    /\ runs = <<>>
    /\ fault = NoFault
    /\ metrics = NoMetrics
    /\ dataset \in Datasets
    /\ dataset_type = "none"
    /\ manager_type = "none"
    /\ id_raised = "None"

classifyrest == <<sharevars, sidevars, tarvars, entryvars, retryvars, filevars, guardvars, msgvars, input_uri, output_uri, inputs,
                  input_files, branch, stage, proc, runs, fault, metrics>>

\* get_manager: dataset_type = get_dataset_type(dataset)
get_manager_dataset_type ==
    /\ pc = "get_dataset_type"
    /\ LET t == get_dataset_type(dataset)
       IN  IF t = "ValueError"
           THEN /\ id_raised' = "ValueError"
                /\ pc' = "raised"
                /\ UNCHANGED dataset_type
           ELSE /\ dataset_type' = t
                /\ pc' = "manager_type"
                /\ UNCHANGED id_raised
    /\ UNCHANGED <<dataset, manager_type, manager, classifyrest>>

\* get_manager: the if/elif chain that sets manager_type
get_manager_manager_type ==
    /\ pc = "manager_type"
    /\ manager_type' = CASE dataset_type = "ipst" -> get_instrument(dataset)
                         [] dataset_type = "svm" -> "svm"
                         [] dataset_type = "mvm" -> "mvm"
    /\ pc' = "MANAGERS"
    /\ UNCHANGED <<dataset, dataset_type, id_raised, manager, classifyrest>>

\* get_svm_obs_set(svm_dataset), called when SvmManager is constructed: the
\* exception it raises, or "None"
get_svm_obs_set(d) ==
    IF ~SVM_RE(d) THEN "ValueError"
    ELSE IF split_0(d) \notin SVM_INSTR THEN "KeyError"
    ELSE "None"

\* get_manager: manager = MANAGERS[manager_type](dataset, input_uri, output_uri)
get_manager_lookup ==
    /\ pc = "MANAGERS"
    /\ LET e == IF manager_type \notin MANAGERS THEN "KeyError"
                ELSE IF manager_type = "svm" THEN get_svm_obs_set(dataset)
                ELSE "None"
       IN  IF e = "None"
           THEN /\ manager' = manager_type
                /\ pc' = "returned"
                /\ UNCHANGED id_raised
           ELSE /\ id_raised' = e
                /\ pc' = "raised"
                /\ UNCHANGED manager
    /\ UNCHANGED <<dataset, dataset_type, manager_type, classifyrest>>

ClassifyNext ==
    get_manager_dataset_type \/ get_manager_manager_type \/ get_manager_lookup

SpecClassify == ClassifyInit /\ [][ClassifyNext]_vars

(***************************************************************************)
(* Two jobs with different datasets, each with its Messages object, over   *)
(* one messages directory and one bucket; their operations interleave step *)
(* by step.  A name is the sequence of its parts, the dataset among them.  *)
(***************************************************************************)
Jobs == {1, 2}
Other(j) == 3 - j

\* Dataset names, as sequences of parts.
JobDatasets == {<<"a">>, <<"b">>, <<"a", ".trigger">>, <<"ed", "-", "a">>}
MarkerStates == {"submit", "processing", "processed", "error"}

\* Marker names that leave the dataset out.
marker_name_bare(state, d) ==
    CASE state = "submit" -> <<"submit">>
      [] state = "processing" -> <<"process", "ing">>
      [] state = "processed" -> <<"process", "ed", ".trigger">>
      [] state = "error" -> <<"error">>

\* f"submit-{dataset}", f"processing-{dataset}", f"processed-{dataset}.trigger",
\* f"error-{dataset}"
marker_name(state, d) ==
    CASE state = "submit" -> <<"submit", "-">> \o d
      [] state = "processing" -> <<"process", "ing", "-">> \o d
      [] state = "processed" -> <<"process", "ed", "-">> \o d \o <<".trigger">>
      [] state = "error" -> <<"error", "-">> \o d

\* The marker names of a dataset.
MarkersOf(d) == {marker_name(state, d) : state \in MarkerStates}

NewMessages(d, uri) ==
    [dataset |-> d, output_uri |-> uri, stat |-> 0, name |-> <<>>, file |-> NoFile, last_file |-> NoFile,
     mpc |-> "idle"]

TwoJobsInit ==
    /\ simulated_code = 0
    /\ GuardIdle
    /\ MsgIdle
    /\ JobIdle
    /\ RetryIdle
    /\ FilesIdle
    /\ IdIdle
    /\ argc = 4
    /\ sys_exits = <<>>
    /\ archive = NoArchive
    /\ SideIdle
    /\ \E d1 \in JobDatasets, d2 \in JobDatasets :
         /\ d1 # d2
         /\ \E uri1 \in {"file", "s3"}, uri2 \in {"file", "s3"} :
              msgs = <<NewMessages(d1, uri1), NewMessages(d2, uri2)>>
         /\ \E stale \in {{}, {"error"}, {"processed"}} :
              space = [local |-> {join(msg_dir, marker_name(state, d2)) : state \in stale},
                       remote |-> {}]
    /\ touch = [job |-> 0, names |-> {}]

tworest == <<guardvars, msgvars, jobvars, retryvars, filevars, idvars, entryvars, tarvars,
            sidevars>>

\* Job j calls init, process_message or final_message; result is what
\* final_message adds up from the metrics files.
messages_call(j) ==
    /\ msgs[j].mpc = "idle"
    /\ \E op \in {"init", "process_message", "final_message"}, result \in {0, 1} :
         LET m == msgs[j]
             d == m.dataset
         IN  msgs' = [msgs EXCEPT ![j] =
                CASE op = "init" -> [m EXCEPT !.mpc = "clear 1"]
                  [] op = "process_message" /\ m.stat = 1 ->
                        [m EXCEPT !.last_file = m.file,
                                  !.name = marker_name("processing", d),
                                  !.file = join(msg_dir, marker_name("processing", d)),
                                  !.mpc = "pm write"]
                  [] op = "process_message" /\ m.stat # 1 ->
                        [m EXCEPT !.last_file = m.file]
                  [] op = "final_message" /\ m.stat = 2 ->
                        [m EXCEPT !.last_file = m.file,
                                  !.name = marker_name(IF result > 0 THEN "error"
                                                       ELSE "processed", d),
                                  !.file = join(msg_dir,
                                                marker_name(IF result > 0 THEN "error"
                                                            ELSE "processed", d)),
                                  !.stat = IF result > 0 THEN -1 ELSE m.stat + 1,
                                  !.mpc = "fm write"]
                  [] OTHER -> m]
    /\ touch' = [job |-> j, names |-> {}]
    /\ UNCHANGED <<space, tworest>>

\* remove_message(path) over the shared directory and bucket.
remove_message_shared(uri, path, sp) ==
    [local |-> IF path \in sp.local THEN sp.local \ {path} ELSE sp.local,
     remote |-> IF uri = "s3" THEN sp.remote \ {basename(path)} ELSE sp.remote]

\* init of job j: one remove_message of clear_messages, or the rest of init.
messages_init_step(j) ==
    LET m == msgs[j]
        uri == m.output_uri
        d == m.dataset
        previous == <<marker_name("error", d), marker_name("processing", d),
                      marker_name("processed", d)>>
    IN  \/ \E i \in 1..3 :
              /\ m.mpc = ClearStep[i]
              /\ space' = remove_message_shared(uri, join(cwd, previous[i]), space)
              /\ touch' = [job |-> j, names |-> {previous[i]}]
              /\ msgs' = [msgs EXCEPT ![j].mpc = IF i < 3 THEN ClearStep[i + 1]
                                                 ELSE "init set"]
        \/ /\ m.mpc = "init set"
           /\ msgs' = [msgs EXCEPT ![j] =
                          IF m.stat = 0
                          THEN [m EXCEPT !.name = marker_name("submit", d),
                                         !.file = join(msg_dir, marker_name("submit", d)),
                                         !.stat = 1, !.mpc = "idle"]
                          ELSE [m EXCEPT !.mpc = "idle"]]
           /\ touch' = [job |-> j, names |-> {}]
           /\ UNCHANGED space

\* write_message of job j, in process_message or final_message.
messages_write_step(j) ==
    /\ msgs[j].mpc \in {"pm write", "fm write"}
    /\ space' = [space EXCEPT !.local = @ \cup {msgs[j].file}]
    /\ touch' = [job |-> j, names |-> {basename(msgs[j].file)}]
    /\ msgs' = [msgs EXCEPT ![j].mpc = IF @ = "pm write" THEN "pm remove" ELSE "fm remove"]

\* remove_message(last_file) of job j, then stat += 1 in process_message.
messages_remove_step(j) ==
    /\ msgs[j].mpc \in {"pm remove", "fm remove"}
    /\ space' = remove_message_shared(msgs[j].output_uri, msgs[j].last_file, space)
    /\ touch' = [job |-> j, names |-> {basename(msgs[j].last_file)}]
    /\ msgs' = [msgs EXCEPT ![j] =
                   IF @.mpc = "pm remove"
                   THEN [@ EXCEPT !.stat = @ + 1, !.mpc = "pm upload"]
                   ELSE [@ EXCEPT !.mpc = "fm upload"]]

\* sync_dataset (it rewrites the content of self.file) and upload_message of job j.
messages_upload_step(j) ==
    /\ msgs[j].mpc \in {"pm upload", "fm upload"}
    /\ space' = IF msgs[j].output_uri = "s3" THEN [space EXCEPT !.remote = @ \cup {msgs[j].name}]
                ELSE space
    /\ touch' = [job |-> j, names |-> {msgs[j].name}]
    /\ msgs' = [msgs EXCEPT ![j].mpc = "idle"]

TwoJobsNext ==
    \E j \in Jobs :
        /\ \/ messages_call(j)
           \/ messages_init_step(j)
           \/ messages_write_step(j)
           \/ messages_remove_step(j)
           \/ messages_upload_step(j)
        /\ UNCHANGED tworest

SpecTwoJobs == TwoJobsInit /\ [][TwoJobsNext]_vars

(***************************************************************************)
(* file_ops.ProgressPercentage: one object, called back by the threads of  *)
(* a transfer.  self._seen_so_far += bytes_amount is a load and a store.   *)
(***************************************************************************)
Threads == {1, 2, 3}
MaxChunks == 2
ChunkSizes == {1, 2}

\* A lock that never makes a thread wait.
lock_free_for_all(l) == TRUE
\* with self._lock: the lock can be taken when no thread holds it.
lock_free(l) == l = 0

ProgressInit ==
    /\ simulated_code = 0
    /\ GuardIdle
    /\ MsgIdle
    /\ JobIdle
    /\ RetryIdle
    /\ FilesIdle
    /\ IdIdle
    /\ argc = 4
    /\ sys_exits = <<>>
    /\ archive = NoArchive
    /\ msgs = <<>>
    /\ space = [local |-> {}, remote |-> {}]
    /\ touch = [job |-> 0, names |-> {}]
    /\ LoopIdle
    /\ TarballIdle
    /\ CleanIdle
    /\ lock = 0
    /\ seen_so_far = 0
    /\ calls = [t \in Threads |-> [pc |-> "idle", bytes_amount |-> 0, loaded |-> 0,
                                   made |-> 0]]
    /\ reported = 0

progrest == <<guardvars, msgvars, jobvars, retryvars, filevars, idvars, entryvars, tarvars,
              sharevars, loopvars, tarballvars, cleanvars>>

\* Thread t calls the object with a number of bytes.
progress_call(t) ==
    /\ calls[t].pc = "idle"
    /\ calls[t].made < MaxChunks
    /\ \E n \in ChunkSizes :
         /\ calls' = [calls EXCEPT ![t].pc = "with", ![t].bytes_amount = n,
                                   ![t].made = @ + 1]
         /\ reported' = reported + n
    /\ UNCHANGED <<lock, seen_so_far>>

\* with self._lock: t takes the lock.
progress_acquire(t) ==
    /\ calls[t].pc = "with"
    /\ lock_free(lock)
    /\ lock' = t
    /\ calls' = [calls EXCEPT ![t].pc = "load"]
    /\ UNCHANGED <<seen_so_far, reported>>

\* self._seen_so_far += bytes_amount: the load of the attribute.
progress_load(t) ==
    /\ calls[t].pc = "load"
    /\ calls' = [calls EXCEPT ![t].loaded = seen_so_far, ![t].pc = "store"]
    /\ UNCHANGED <<lock, seen_so_far, reported>>

\* self._seen_so_far += bytes_amount: the store of the sum.
progress_store(t) ==
    /\ calls[t].pc = "store"
    /\ seen_so_far' = calls[t].loaded + calls[t].bytes_amount
    /\ calls' = [calls EXCEPT ![t].pc = "write"]
    /\ UNCHANGED <<lock, reported>>

\* The line is written to stdout, the block ends and the lock is released.
progress_release(t) ==
    /\ calls[t].pc = "write"
    /\ lock' = IF lock = t THEN 0 ELSE lock
    /\ calls' = [calls EXCEPT ![t].pc = "idle"]
    /\ UNCHANGED <<seen_so_far, reported>>

ProgressNext ==
    \E t \in Threads :
        /\ \/ progress_call(t)
           \/ progress_acquire(t)
           \/ progress_load(t)
           \/ progress_store(t)
           \/ progress_release(t)
        /\ UNCHANGED progrest

SpecProgress == ProgressInit /\ [][ProgressNext]_vars

(***************************************************************************)
(* python -m caldp.process with several datasets: main, process_datasets   *)
(* and, for each dataset, process() as two steps, the status messages and  *)
(* Manager.main, under exit_receiver.                                      *)
(***************************************************************************)
MaxDatasets == 3

\* for dataset in datasets: an exception raised by process() ends the loop.
loop_goes_on(exception) == exception = NoExc

DatasetsInit ==
    /\ simulated_code = 0
    /\ GuardIdle
    /\ MsgIdle
    /\ RetryIdle
    /\ FilesIdle
    /\ IdIdle
    /\ argc = 4
    /\ sys_exits = <<>>
    /\ archive = NoArchive
    /\ msgs = <<>>
    /\ space = [local |-> {}, remote |-> {}]
    /\ touch = [job |-> 0, names |-> {}]
    /\ ProgressIdle
    /\ TarballIdle
    /\ CleanIdle
    /\ datasets \in 1..MaxDatasets
    /\ current = 0
    /\ started = <<>>
    /\ handled = <<>>
    /\ pc = "process_datasets"
    /\ manager = "none"
    /\ input_uri = "file"
    /\ output_uri = "file"
    /\ inputs = "empty"
    /\ input_files = "none"
    /\ branch = "none"
    /\ stage = "none"
    /\ proc = NoProc
    /\ runs = <<>>
    /\ fault = NoFault
    /\ metrics = NoMetrics

looprest == <<filevars, retryvars, idvars, entryvars, tarvars, sharevars, progvars,
              tarballvars, cleanvars, guardrest,
              msgvars, manager, input_uri, output_uri, inputs, input_files, branch, stage,
              proc, runs, metrics>>

\* for dataset in datasets: the next dataset, or the end of the loop and of main.
process_datasets ==
    /\ gpc = "run" /\ pc = "process_datasets"
    /\ IF current < datasets
       THEN /\ current' = current + 1
            /\ started' = Append(started, current + 1)
            /\ pc' = "process"
       ELSE /\ pc' = "returned"
            /\ UNCHANGED <<current, started>>
    /\ UNCHANGED <<datasets, handled, gpc, exc, reports, fault, looprest>>

\* process(dataset, ...): msg.init() and msg.process_message() write the
\* processing marker of the dataset.
process_messages ==
    /\ gpc = "run" /\ pc = "process"
    /\ handled' = Append(handled, [dataset |-> current, marker |-> TRUE, phases |-> FALSE,
                                     manager |-> "none", status |-> <<>>, raised |-> NoExc,
                                     code |-> SUCCESS])
    /\ pc' = "manager.main"
    /\ UNCHANGED <<datasets, current, started, gpc, exc, reports, fault, looprest>>

\* process(dataset, ...): get_manager and Manager.main; a step of it raises
\* body_exc inside its exit_on_exception block, or the stage program runs and
\* ends with status st, Manager.run testing a p.returncode that is still None.
process_manager_main ==
    /\ gpc = "run" /\ pc = "manager.main"
    /\ \E m \in {"acs", "cos"}, body_exc \in {NoExc} \cup StepFailures,
          exit_code \in {ASTROQUERY_ERROR, BESTREFS_ERROR}, st \in ExitStatuses :
         LET ran == body_exc = NoExc
             e == IF ran THEN returncode_check(<<>>, ignore_err_nums(m)) ELSE body_exc
             r == exit_on_exception(IF ran THEN STAGE1_ERROR ELSE exit_code, "Command:", e)
         IN  /\ handled' = [handled EXCEPT ![Len(handled)] =
                    [@ EXCEPT !.phases = TRUE, !.manager = m,
                              !.status = IF ran THEN <<st>> ELSE <<>>,
                              !.raised = e,
                              !.code = IF e = NoExc THEN SUCCESS ELSE r.raise.code]]
             /\ IF loop_goes_on(e)
                THEN /\ pc' = "process_datasets"
                     /\ UNCHANGED <<gpc, exc, reports, fault>>
                ELSE Raises("manager.main", e, r, FALSE)
    /\ UNCHANGED <<datasets, current, started, looprest>>

DatasetsNext == process_datasets \/ process_messages \/ process_manager_main \/ ExitReceiver

SpecDatasets == DatasetsInit /\ [][DatasetsNext]_vars

(***************************************************************************)
(* file_ops.tar_outputs for an ipppssoot dataset.  A file is the directory  *)
(* it is under (the output or the input directory), its place there ("."   *)
(* the directory itself, "dataset" the dataset's folder, "previews" and     *)
(* "env" the folders inside it) and its name as a sequence of parts.        *)
(***************************************************************************)
File(root, sub, n) == [root |-> root, sub |-> sub, name |-> n]
\* dataset + ".tar.gz" in the current directory, and the copy in the dataset's folder.
tar_name == <<"dataset", ".tar.gz">>
\* What the two directories can hold when tar_outputs is called.
ProductFiles ==
    {File("outputs", "dataset", <<"dataset", "_flt", ".fits">>),
     File("outputs", "dataset", <<"dataset", ".tra">>)}
OtherFiles ==
    {File("outputs", "previews", <<"dataset", "_thumb", ".png">>),
     File("outputs", "env", <<"dataset", "_cal_env", ".txt">>),
     File("outputs", ".", tar_name),
     File("inputs", "dataset", <<"dataset", "_raw", ".fits">>),
     File("inputs", "dataset", tar_name)}

\* file_ops.find_output_files(ipppssoot): dataset/*.fits and dataset/*.tra under root.
tar_find_output_files(root, disk) ==
    {f \in disk : /\ f.root = root /\ f.sub = "dataset"
                  /\ (EndsWith(f.name, <<".fits">>) \/ EndsWith(f.name, <<".tra">>))}
\* file_ops.find_previews: dataset/previews/* is added.
find_previews(root, found, disk) ==
    found \cup {f \in disk : f.root = root /\ f.sub = "previews"}
\* file_ops.find_input_files: dataset/*
tar_find_input_files(root, disk) == {f \in disk : f.root = root /\ f.sub = "dataset"}

\* tar_outputs with clean_up called before upload_tar.
tar_outputs_clean_first == <<"find", "make_tar", "clean_up", "upload_tar", "return">>
\* The statements of tar_outputs, in order.
tar_outputs == <<"find", "make_tar", "upload_tar", "clean_up", "return">>

\* The statement after the one at tar_pc.
tar_after(at) ==
    LET i == CHOOSE k \in 1..Len(tar_outputs) : tar_outputs[k] = at
    IN  tar_outputs[i + 1]

TarInit ==
    /\ simulated_code \in {0, S3_UPLOAD_ERROR}
    /\ GuardIdle
    /\ MsgIdle
    /\ RetryIdle
    /\ FilesIdle
    /\ IdIdle
    /\ argc = 4
    /\ sys_exits = <<>>
    /\ archive = NoArchive
    /\ msgs = <<>>
    /\ space = [local |-> {}, remote |-> {}]
    /\ touch = [job |-> 0, names |-> {}]
    /\ ProgressIdle
    /\ LoopIdle
    /\ CleanIdle
    /\ tar_pc = tar_outputs[1]
    /\ \E products \in SUBSET ProductFiles, others \in SUBSET OtherFiles :
         tar_disk = products \cup others
    /\ file_list = {}
    /\ tar_removed = {}
    /\ tar_exc = NoExc
    /\ pc = "none"
    /\ manager = "none"
    /\ input_uri \in {"file", "astroquery"}
    /\ output_uri \in {"file", "s3"}
    /\ inputs = "empty"
    /\ input_files = "none"
    /\ branch = "none"
    /\ stage = "none"
    /\ proc = NoProc
    /\ runs = <<>>
    /\ fault = NoFault
    /\ metrics = NoMetrics

tarrest == <<guardvars, msgvars, jobvars, retryvars, filevars, idvars, entryvars, tarvars,
             sharevars, progvars, loopvars, cleanvars>>

\* The directory file_list was found in.
tar_root == IF tar_find_output_files("outputs", tar_disk) = {} THEN "inputs" ELSE "outputs"

\* output_files = find_output_files(dataset); file_list of the inputs when
\* there is none, of the outputs and previews otherwise.
tar_find ==
    /\ tar_pc = "find"
    /\ LET found == tar_find_output_files("outputs", tar_disk)
       IN  file_list' = IF found = {} THEN tar_find_input_files("inputs", tar_disk)
                        ELSE find_previews("outputs", found, tar_disk)
    /\ tar_pc' = tar_after(tar_pc)
    /\ UNCHANGED <<tar_disk, tar_removed, tar_exc, tarrest>>

\* make_tar: a tar file of an earlier attempt is removed, the new one is written
\* in the current directory, copied into the dataset's folder and removed.
make_tar ==
    /\ tar_pc = "make_tar"
    /\ LET root == IF file_list = {} THEN tar_root ELSE (CHOOSE f \in file_list : TRUE).root
           tar == File(root, ".", tar_name)
           tar_dest == File(root, "dataset", tar_name)
       IN  /\ tar_disk' = (tar_disk \ {tar}) \cup {tar_dest}
           /\ tar_removed' = tar_removed \cup ({tar} \cap tar_disk)
    /\ tar_pc' = tar_after(tar_pc)
    /\ UNCHANGED <<file_list, tar_exc, tarrest>>

\* upload_tar: the block is entered; boto3.client or upload_fileobj raises
\* body_exc, or the tar file is uploaded (nothing is, for an output_path that
\* does not start with s3).
upload_tar ==
    /\ tar_pc = "upload_tar"
    /\ \E body_exc \in {NoExc} \cup StepFailures, alloc_fails \in BOOLEAN :
         LET sim == simulate(simulated_code, S3_UPLOAD_ERROR, alloc_fails)
             e == IF sim # NoExc THEN sim ELSE body_exc
         IN  IF e = NoExc
             THEN /\ tar_pc' = tar_after(tar_pc)
                  /\ UNCHANGED tar_exc
             ELSE /\ tar_exc' = exit_on_exception(S3_UPLOAD_ERROR, "S3 tar upload of", e).raise
                  /\ tar_pc' = "raised"
    /\ UNCHANGED <<tar_disk, file_list, tar_removed, tarrest>>

\* file_ops.clean_up(file_list, dataset, dirs=["previews", "env"]): every file
\* of the list is removed, then the two folders of the dataset.
tar_clean_up ==
    /\ tar_pc = "clean_up"
    /\ LET folders == {f \in tar_disk : f.root = tar_root /\ f.sub \in {"previews", "env"}}
           gone == (file_list \cap tar_disk) \cup folders
       IN  /\ tar_disk' = tar_disk \ gone
           /\ tar_removed' = tar_removed \cup gone
    /\ tar_pc' = tar_after(tar_pc)
    /\ UNCHANGED <<file_list, tar_exc, tarrest>>

TarNext == tar_find \/ make_tar \/ upload_tar \/ tar_clean_up

SpecTar == TarInit /\ [][TarNext]_vars

(***************************************************************************)
(* Claims about the job (specification Spec).                              *)
(***************************************************************************)
\* The external program of run r failed: a status that is neither 0 nor ignored.
Failed(r) == r.status # 0 /\ r.status \notin ignore_err_nums(manager)

\* C6: Manager.run raises SubprocessFailure carrying the program's signed return
\* code whenever that code is nonzero and not in ignore_err_nums, and raises
\* nothing when the code is 0 or in ignore_err_nums.
C6_RunRaisesOnFailedProgram ==
    \A i \in 1..Len(runs) :
        runs[i].raised = IF Failed(runs[i]) THEN SubprocessFailure(runs[i].status)
                         ELSE NoExc

\* The status namespace of the job: the remote one when the output is object
\* storage, the local messages directory otherwise.
Namespace == IF msg_output_uri = "s3" THEN remote ELSE local

Stage1ExitedWith(st) ==
    \E i \in 1..Len(runs) : runs[i].stage = "stage1" /\ runs[i].status = st

\* C7: if the stage1 program exits with status 1, the job terminates with
\* STAGE1_ERROR, and at the end of the job the error marker exists while no
\* processed marker does.
C7_Stage1FailureEndsInError ==
    Stage1ExitedWith(1) =>
        /\ gpc = "exited" => exit_calls = <<STAGE1_ERROR>>
        /\ pc = "done" => "error" \in Namespace /\ "processed" \notin Namespace

\* The externally-facing steps, and the exit codes specific to each.
ExternalSteps ==
    {"download", "find_input_files", "get_objects", "assign_bestrefs", "run", "output_files"}
StepCodes(step) ==
    CASE step = "download" -> {ASTROQUERY_ERROR}
      [] step = "find_input_files" -> {INPUT_TAR_FILE_ERROR}
      [] step = "get_objects" -> {S3_DOWNLOAD_ERROR, INPUT_TAR_FILE_ERROR}
      [] step = "assign_bestrefs" -> {BESTREFS_ERROR}
      [] step = "run" -> {RunCode(stage)}
      [] step = "output_files" -> {S3_UPLOAD_ERROR}
      [] OTHER -> {}

\* C8: a failure in any externally-facing step (input acquisition in the three
\* input modes, reference assignment, a stage invocation, output egress)
\* terminates the job with the exit code specific to that step, never with the
\* generic one.  A memory fault may end with its memory code.
C8_ExternalFailureHasItsOwnCode ==
    /\ (gpc = "exited" /\ fault.step \in ExternalSteps /\ input_uri \in InputSchemes) =>
            /\ Len(exit_calls) = 1
            /\ exit_calls[1] # GENERIC_ERROR
            /\ exit_calls[1] \in StepCodes(fault.step)
                                    \cup (IF fault.exc = MemoryError
                                          THEN {CALDP_MEMORY_ERROR} ELSE {})
    /\ \A i \in 1..Len(runs) :
            (gpc = "exited" /\ Failed(runs[i])) => exit_calls = <<RunCode(runs[i].stage)>>

\* C9: after each completed status transition of the job (init, process_message,
\* final_message) exactly one status marker of the dataset exists in the messages
\* namespace.
C9_OneMarkerAfterEachTransition ==
    (mpc = "idle" /\ last_op \in {"init", "process_message", "final_message"}) =>
        Cardinality(Namespace) = 1

\* C10: in every reachable state, the states inside a transition included, at
\* most one status marker of the dataset exists, in the local messages directory
\* and, when the output is object storage, in the remote namespace.
C10_AtMostOneMarkerAlways ==
    /\ Cardinality(local) <= 1
    /\ msg_output_uri = "s3" => Cardinality(remote) <= 1

\* A step of a transition that deletes an object of the remote namespace.
RemoteDelete == msg_output_uri = "s3" /\ remote' # remote /\ ~(remote \subseteq remote')

\* C11: in every status transition, with object storage as output, the remote
\* copy of the previous marker is deleted only after the new marker has been
\* uploaded, so the remote namespace never goes from some marker to none during
\* a transition.
C11_RemoteDeleteAfterUpload ==
    [][RemoteDelete /\ mpc \in {"pm remove", "fm remove"}
            => name \in remote /\ remote' # {}]_vars

\* The sum final_message computes from the two metrics files.
DigitSum == tail_digit(metrics.process[1]) + tail_digit(metrics.preview[1])
InFinalMessage == mpc \in {"fm write", "fm remove", "fm sync", "fm upload"}

\* C12: final_message, called with stat 2, sums the trailing status digits of the
\* process and preview metrics; a zero sum writes the processed marker and sets
\* stat to 3, a nonzero sum writes the error marker and sets stat to -1, and the
\* write adds that one marker only.
C12_FinalMessageByDigitSum ==
    /\ []((InFinalMessage \/ last_op = "final_message") =>
            IF DigitSum = 0 THEN name = "processed" /\ stat = 3
            ELSE name = "error" /\ stat = -1)
    /\ [][mpc = "fm write" =>
            local' = local \cup {IF DigitSum = 0 THEN "processed" ELSE "error"}]_vars

C12_Witness ==
    /\ last_op = "final_message"
    /\ metrics.process = <<SUCCESS>> /\ metrics.preview = <<CREATE_PREVIEWS_ERROR>>
    /\ name = "error" /\ stat = -1

\* The status order: none, submitted, processing, then the terminal states.
Rank(st) == CASE st = 0 -> 0 [] st = 1 -> 1 [] st = 2 -> 2 [] OTHER -> 3
Terminal(st) == st \in {3, -1}
\* preview_message is the operation called, and no other is in progress.
InPreviewMessage == pc = "msg.preview_message" /\ mpc = "idle"

\* C13: over any sequence of Messages operations the status never moves
\* backward and never leaves a terminal state (processed or error).
C13_StatusOnlyAdvances ==
    [][/\ Rank(stat') >= Rank(stat)
       /\ Terminal(stat) => stat' = stat]_vars

\* C13, amended: over any sequence of Messages operations, init, process_message
\* and final_message move the status only one step forward along submitted ->
\* processing -> {processed, error} and never out of a terminal state;
\* preview_message sets it to processing from any state.
C13_StatusAdvancesButForPreview ==
    [][\/ stat' = stat
       \/ <<stat, stat'>> \in {<<0, 1>>, <<1, 2>>, <<2, 3>>, <<2, -1>>}
       \/ InPreviewMessage /\ stat' = 2]_vars

\* init() was called on a finished object and left it finished.
C13_Witness == last_op = "init" /\ Terminal(stat) /\ mpc = "idle"

\* The phase of Manager.main a position belongs to: 1 input acquisition,
\* 2 reference assignment, 3 stage execution, 4 output collection, 0 none.
PhaseRank(at) ==
    CASE at \in {"get_input_files", "download", "find_input_files", "get_objects",
                 "get_objects extract", "process_inputs"} -> 1
      [] at \in {"assign_bestrefs", "assign_bestrefs retry"} -> 2
      [] at \in {"calibrate", "run", "run echo", "run check"} -> 3
      [] at = "output_files" -> 4
      [] OTHER -> 0
StageFailed == \E i \in 1..Len(runs) : Failed(runs[i])
OutputFilesStep == pc = "output_files" /\ gpc = "run" /\ (pc' # pc \/ fault' # fault)

\* C14: within a job, input acquisition, reference assignment, stage execution
\* and output collection run in that order, and once a phase has failed no later
\* phase is started.
C14_PhasesInOrderStopAtFailure ==
    [][/\ (PhaseRank(pc) > 0 /\ PhaseRank(pc') > 0) => PhaseRank(pc') >= PhaseRank(pc)
       /\ fault # NoFault => (pc' = pc \/ PhaseRank(pc') = 0)
       /\ OutputFilesStep => ~StageFailed]_vars

(***************************************************************************)
(* Claims about retry (specification SpecRetry).                           *)
(***************************************************************************)
\* Every call of func so far raised an exception that retry catches.
AlwaysFails == \A i \in 1..Len(attempts) : attempts[i] # NoExc /\ Qualifies(attempts[i])

\* C15: retry(fn, max_retries=N), for fn raising a qualifying exception on every
\* call, invokes fn exactly N times and then raises the last exception fn raised,
\* unchanged.
C15_RetryCallsNTimesThenReraises ==
    AlwaysFails =>
        /\ rpc # "returned"
        /\ Len(attempts) <= max_retries
        /\ rpc = "raised" =>
              /\ Len(attempts) = max_retries
              /\ Len(attempts) >= 1
              /\ retry_out = attempts[Len(attempts)]

\* C15, amended: for N >= 1 as claimed; for N <= 0 fn is never invoked and decor
\* raises UnboundLocalError, its local exc never having been bound.
C15_RetryCallsNTimesThenReraisesIfAny ==
    AlwaysFails =>
        /\ rpc # "returned"
        /\ Len(attempts) <= max_retries
        /\ rpc = "raised" =>
              /\ Len(attempts) = max_retries
              /\ retry_out = IF max_retries >= 1 THEN attempts[Len(attempts)]
                             ELSE UnboundLocalError

C15_Witness ==
    /\ rpc = "raised" /\ AlwaysFails
    /\ max_retries = 3 /\ Len(attempts) = 3
    /\ attempts[1] = NotImplementedError /\ attempts[3] = CaldpExit(GENERIC_ERROR)
    /\ retry_out = CaldpExit(GENERIC_ERROR)

(***************************************************************************)
(* More claims about the job (specification Spec).                         *)
(***************************************************************************)
\* The process command has exited with code 0.
ProcessExitedZero == gpc = "exited" /\ exit_calls = <<SUCCESS>>

\* C16: whenever the process command exits with code 0, the status has been
\* finalized: the processed marker has been written before the exit.
C16_ExitZeroAfterProcessedMarker ==
    ProcessExitedZero => last_op = "final_message" /\ name = "processed"

\* C16, amended: when the process command exits with code 0 the processing
\* marker is the one written (locally, and remotely for object storage) and no
\* final_message has run; messages.main writes the terminal marker after the
\* exit, processed if the preview status ends in 0 too and error otherwise.
C16_ExitZeroThenFinalized ==
    ProcessExitedZero =>
        /\ metrics = NoMetrics =>
              /\ last_op = "process_message" /\ name = "processing" /\ stat = 2
              /\ "processing" \in local
              /\ msg_output_uri = "s3" => "processing" \in remote
        /\ pc = "done" =>
              /\ last_op = "final_message"
              /\ name = IF tail_digit(metrics.preview[1]) = 0 THEN "processed"
                        ELSE "error"
              /\ name \in Namespace

C16_Witness ==
    /\ ProcessExitedZero /\ metrics = NoMetrics
    /\ Len(runs) = 2 /\ pc = "returned"
    /\ msg_output_uri = "s3" /\ remote = {"processing"}

\* C17: when the output_uri given on the command line is "none", in any letter
\* case, the job copies no file to any destination.
C17_NoneOutputCopiesNothing ==
    lower(argv_output_uri) = "none" => destination = {}

\* The files of a set whose name ends with one of the manager's delete_endings.
WithDeleteEnding(files) ==
    {f \in files : \E ending \in delete_endings(manager) : EndsWith(f, ending)}

\* C18: no file whose name ends with one of the manager's delete_endings is at
\* the destination, and output_files leaves none of them among the files its
\* scan finds.
C18_DeleteEndingsNeverCopied ==
    /\ [](WithDeleteEnding({path[3] : path \in destination}) = {})
    /\ [][output_files => WithDeleteEnding(find_output_files(workdir', manager)) = {}]_vars

\* a stis job whose directory held an _epc.fits file has copied its outputs
C18_Witness ==
    /\ manager = "stis"
    /\ Len(collected) = 1
    /\ <<"ipppssoot", "_raw", ".fits">> \in {path[3] : path \in destination}
    /\ <<"ipppssoot", "_epc", ".fits">> \notin workdir
    /\ \E i \in 1..Len(runs) : runs[i].stage = "stage1"

\* C19: output_files called again on the directory the call before left leaves
\* the same set of files at the destination.
C19_OutputFilesTwiceAsOnce ==
    \A i \in 1..(Len(collected) - 1) : collected[i + 1] = collected[i]

\* output_files has returned twice and files are at the destination
C19_Witness ==
    /\ Len(collected) >= 2
    /\ collected[2] # {}
    /\ pc = "returned"

\* The three kinds of well-formed dataset name.
WellFormedIpst(d) ==
    /\ Len(d) = 9
    /\ lower_char(d[1]) \in {"i", "j", "l", "o"}
    /\ \A i \in 1..9 : Alnum(d[i])
WellFormedSvm(d) ==
    \E inst \in SVM_INSTR :
        LET n == Len(inst)
        IN  /\ Len(d) = n + 7
            /\ SubSeq(d, 1, n) = inst
            /\ d[n + 1] = "_" /\ d[n + 5] = "_"
            /\ \A i \in {n + 2, n + 3, n + 4, n + 6, n + 7} : Alnum(d[i])
WellFormedMvm(d) ==
    /\ Len(d) = 19
    /\ SubSeq(d, 1, 9) = <<"s", "k", "y", "c", "e", "l", "l", "-", "p">>
    /\ d[14] = "x" /\ d[17] = "y"
    /\ \A i \in {10, 11, 12, 13, 15, 16, 18, 19} : d[i] \in Digits

\* The manager get_manager is to select for a dataset of each type.
ManagerOf(d, type) ==
    CASE type = "ipst" -> CASE lower_char(d[1]) = "i" -> "wfc3"
                            [] lower_char(d[1]) = "j" -> "acs"
                            [] lower_char(d[1]) = "l" -> "cos"
                            [] lower_char(d[1]) = "o" -> "stis"
                            [] OTHER -> "none"
      [] type = "svm" -> "svm"
      [] type = "mvm" -> "mvm"
      [] OTHER -> "none"

\* C20: a well-formed name of each kind gets its type; no name matches more than
\* one pattern; a name get_dataset_type accepts selects one manager of MANAGERS
\* and get_manager returns; a name that matches no pattern raises ValueError.
C20_DatasetTypeSelectsOneManager ==
    /\ Cardinality({k \in {"ipst", "svm", "mvm"} :
                      \/ k = "ipst" /\ IPPPSSOOT_RE(dataset)
                      \/ k = "svm" /\ SVM_RE(dataset)
                      \/ k = "mvm" /\ MVM_RE(dataset)}) <= 1
    /\ pc \in {"returned", "raised"} /\ dataset # <<>> =>
         /\ WellFormedIpst(dataset) => dataset_type = "ipst"
         /\ WellFormedSvm(dataset) => dataset_type = "svm"
         /\ WellFormedMvm(dataset) => dataset_type = "mvm"
         /\ dataset_type # "none" =>
              /\ pc = "returned"
              /\ id_raised = "None"
              /\ manager \in MANAGERS
              /\ manager = ManagerOf(dataset, dataset_type)
         /\ ~IPPPSSOOT_RE(dataset) /\ ~SVM_RE(dataset) /\ ~MVM_RE(dataset) =>
              pc = "raised" /\ id_raised = "ValueError"

\* get_manager has returned the manager of a visit-mosaic name
C20_Witness ==
    /\ pc = "returned"
    /\ WellFormedSvm(dataset)
    /\ dataset_type = "svm"
    /\ manager = "svm"

\* A job fails when a step raised or an external program failed.
JobFailed == fault # NoFault \/ \E i \in 1..Len(runs) : Failed(runs[i])

\* C21: no fault is reported twice, and a failing job has made exactly one
\* 'Fatal Exception' report when exit_receiver calls os._exit.
C21_OneReportPerFailingJob ==
    /\ Len(reports) <= 1
    /\ gpc = "exited" /\ JobFailed => Len(reports) = 1

\* C22: no entry point calls sys.exit or os._exit outside exit_receiver: every
\* termination of the process is an os._exit call of exit_receiver.
C22_ExitReceiverOnlyTermination == sys_exits = <<>>

\* get_objects has failed, with a fault of the job and not a simulated one.
GetObjectsFailed == gpc = "exited" /\ fault.step = "get_objects" /\ ~fault.simulated

\* The order of get_objects: extraction starts only on the whole tar file, and
\* the tar file is removed only once extracted.
GetObjectsOrder ==
    /\ [][archive'.extract # archive.extract => archive.file = "whole"]_vars
    /\ [](archive.file = "removed" => archive.extract = "done")
    /\ [](archive.file = "partial" => archive.extract = "none")

NeverBothBranches ==
    [](Cardinality({i \in 1..Len(runs) : runs[i].stage = "stage1"}) <= 1)

\* C24: each calibrate invocation executes exactly one of its two branches, for
\* every list of input files.
C24_ExactlyOneBranch ==
    /\ [][calibrate => branch' \in {"assoc", "unassoc", "raw", "wav"} /\ pc' = "run"]_vars
    /\ NeverBothBranches

\* C24 as amended: at most one branch; the associated one when the files hold an
\* association, else the unassociated one when they hold a raw file, else neither,
\* and then no stage program runs.
C24_AtMostOneBranch ==
    /\ [][calibrate /\ manager # "stis" =>
            /\ branch' = "assoc" <=> input_files = "asn"
            /\ branch' = "unassoc" <=> input_files = "raw"
            /\ branch' = "none" <=> input_files \notin {"asn", "raw"}
            /\ pc' = IF branch' = "none" THEN "output_files" ELSE "run"]_vars
    /\ [][calibrate /\ manager = "stis" => branch' \in {"raw", "wav"} /\ pc' = "run"]_vars
    /\ [](manager \in InstrumentManagers /\ branch = "none" => runs = <<>>)
    /\ NeverBothBranches

\* calibrate ran neither branch on a list with no association and no raw file,
\* and the job went on to output_files
C24_Witness ==
    /\ manager \in InstrumentManagers \ {"stis"}
    /\ input_files = "empty"
    /\ branch = "none"
    /\ pc = "returned"
    /\ runs = <<>>

\* The markers of the job other than j are the same after a step as before.
OthersMarkersKept(j) ==
    LET theirs == MarkersOf(msgs[Other(j)].dataset)
    IN  /\ {path \in space'.local : basename(path) \in theirs}
             = {path \in space.local : basename(path) \in theirs}
        /\ space'.remote \cap theirs = space.remote \cap theirs
\* C25: with two jobs of different datasets interleaving init, process_message
\* and final_message over one messages directory and one bucket, no step of a
\* job writes or removes a marker name of the other job, and the other job's
\* markers on disk and in the bucket are the same after the step as before.
C25_NoCrossJobMarkers ==
    /\ [](touch.job \in Jobs => touch.names \cap MarkersOf(msgs[Other(touch.job)].dataset) = {})
    /\ [][\A j \in Jobs : touch'.job = j => OthersMarkersKept(j)]_vars
C25_Witness ==
    /\ touch.job = 1
    /\ touch.names = {marker_name("submit", msgs[1].dataset)}
    /\ msgs[1].mpc = "pm upload"
    /\ msgs[2].stat = 3
    /\ join(msg_dir, marker_name("processed", msgs[2].dataset)) \in space.local
    /\ marker_name("processed", msgs[2].dataset) \in space.remote
    /\ join(msg_dir, marker_name("processing", msgs[1].dataset)) \in space.local

\* The delay after the i-th failure, had it been computed from retry's arguments.
RECURSIVE Pow(_, _)
Pow(b, n) == IF n <= 0 THEN 1 ELSE b * Pow(b, n - 1)
PassedBackoff(i, twice_u) ==
    Max(Min((twice_u * Pow(retry_args.backoff, i)) \div 2, retry_args.max_sleep),
        retry_args.min_sleep)
\* C26: every delay retry sleeps lies between the min_sleep and the max_sleep
\* retry was called with and is computed with the backoff it was called with:
\* the i-th delay is max(min(u * backoff^i, max_sleep), min_sleep) for a u of
\* uniform(0.5, 1).
C26_SleepsUseRetryArguments ==
    \A i \in 1..Len(sleeps) :
        /\ retry_args.min_sleep <= sleeps[i]
        /\ sleeps[i] <= retry_args.max_sleep
        /\ sleeps[i] \in {PassedBackoff(i, twice_u) : twice_u \in {1, 2}}

\* C27: in assign_bestrefs a persistently failing reference assignment is
\* attempted max_retries (3) times before the fault is classified: while the
\* retried call is in progress nothing is reported and no fault is recorded;
\* a fault of assign_bestrefs, its BESTREFS_ERROR report and its CaldpExit
\* exist only once three attempts have failed, the last one's exception being
\* the one classified.
C27_BestrefsClassifiedAfterRetries ==
    /\ (pc = "assign_bestrefs retry" /\ gpc = "run") => (reports = <<>> /\ fault = NoFault)
    /\ (fault.step = "assign_bestrefs" /\ ~fault.simulated) =>
           /\ max_retries = 3
           /\ tried = max_retries
           /\ Len(attempts) = max_retries
           /\ \A i \in 1..Len(attempts) : attempts[i] # NoExc
           /\ fault.exc = attempts[Len(attempts)]
    /\ ((\E i \in 1..Len(reports) : reports[i].code = BESTREFS_ERROR)
            \/ exc = CaldpExit(BESTREFS_ERROR)
            \/ (\E i \in 1..Len(exit_calls) : exit_calls[i] = BESTREFS_ERROR)) =>
           (fault.step = "assign_bestrefs" /\ tried = 3)
C27_Witness ==
    /\ fault.step = "assign_bestrefs"
    /\ attempts = <<RuntimeError, RuntimeError, RuntimeError>>
    /\ Len(sleeps) = 3
    /\ Len(reports) = 1
    /\ reports[1].code = BESTREFS_ERROR
    /\ gpc = "exited"
    /\ exit_calls = <<BESTREFS_ERROR>>

\* C28: remote-query retrieval is invoked through retry: a fault of download,
\* its report and its ASTROQUERY_ERROR exit exist only once max_retries (3)
\* retrieval attempts have failed, so one failed retrieval does not fail the job.
C28_DownloadThroughRetry ==
    /\ (fault.step = "download" /\ ~fault.simulated) =>
           /\ tried = 3
           /\ Len(attempts) = 3
           /\ \A i \in 1..Len(attempts) : attempts[i] # NoExc
    /\ (\E i \in 1..Len(exit_calls) : exit_calls[i] = ASTROQUERY_ERROR) => tried = 3

EntryRaises ==
    /\ gpc = "run" /\ gpc' = "unwind"
    /\ guards' = guards
    /\ raise_site'.depth = Len(guards) + 1
\* A step in which a block is entered and its body starts, nothing else changing.
EntryPasses ==
    /\ gpc = "run" /\ gpc' = "run"
    /\ Len(guards') = Len(guards) + 1
    /\ exc' = exc /\ reports' = reports /\ exit_calls' = exit_calls
\* A step in which the innermost block is left after its body completed.
BodyCompletes ==
    /\ gpc = "run" /\ gpc' = "run"
    /\ Len(guards') = Len(guards) - 1

\* C30: with CALDP_SIMULATE_ERROR set to a code that is none of the memory
\* codes, a guard whose own code differs from it behaves as with no override:
\* its entry does not raise, its body runs, and when the body completes the
\* guard is left with no exception and no report.
C30_OtherCodesNotSimulated ==
    /\ [][(simulated_code \notin MemoryCodes /\ EntryRaises)
              => raise_site'.code = simulated_code]_vars
    /\ [][(simulated_code \notin MemoryCodes /\ simulated_code # 0 /\ BodyCompletes)
              => (exc' = NoExc /\ reports' = reports /\ exit_calls' = exit_calls)]_vars
    /\ [](simulated_code \notin MemoryCodes =>
              \A i \in 1..Len(guards) : guards[i].code # simulated_code)
C30_Witness ==
    /\ simulated_code = 999
    /\ gpc = "run"
    /\ Len(guards) = 1
    /\ guards[1].code = BESTREFS_ERROR
    /\ raise_site = NoSite
    /\ ~sim_hit
    /\ reports = <<>>

\* C31: a simulated failure (override equal to CALDP_MEMORY_ERROR,
\* OS_MEMORY_ERROR or SUBPROCESS_MEMORY_ERROR, or to the guard's own code) is
\* raised before the body of the block starts: such a block is never among the
\* entered ones, and the step in which an entry raises leaves the entered
\* blocks as they are and puts a CaldpExit in flight.
C31_SimulatedBeforeBody ==
    /\ [](simulated_code \in {CALDP_MEMORY_ERROR, OS_MEMORY_ERROR, SUBPROCESS_MEMORY_ERROR}
              => guards = <<>>)
    /\ [](simulated_code # CONTAINER_MEMORY_ERROR
              => \A i \in 1..Len(guards) : guards[i].code # simulated_code)
    /\ [][EntryRaises => (guards' = guards /\ IsInstance(exc', "CaldpExit"))]_vars
C31_Witness ==
    /\ simulated_code = STAGE1_ERROR
    /\ sim_hit
    /\ gpc = "exited"
    /\ raise_site.depth = 2
    /\ raise_site.code = STAGE1_ERROR
    /\ raise_site.enclosing = <<BESTREFS_ERROR>>
    /\ exit_calls = <<STAGE1_ERROR>>
    /\ Len(reports) = 1

\* C32: Manager.run makes its return-code test, returns or raises, and lets the
\* next stage or phase start only once the external program has been waited
\* for and p.returncode is known.
C32_RunWaitsForProgram ==
    [][(pc = "run check" /\ runs' # runs) =>
          (proc.returncode # <<>> /\ proc.returncode = proc.status)]_vars

\* C33: within the branch calibrate took, stage2 is invoked only when the
\* manager defines a stage2 program and only after stage1 has completed with
\* no fault; when stage1's program ended with a nonzero status that is not in
\* ignore_err_nums, stage2 is never invoked.
C33_Stage2OnlyAfterGoodStage1 ==
    stage = "stage2" =>
        /\ stage2(manager) # "None"
        /\ branch # "none"
        /\ Len(runs) >= 1
        /\ runs[1].stage = "stage1"
        /\ runs[1].raised = NoExc
        /\ ~Failed(runs[1])

\* C34: after init() no error, processing or processed marker of an earlier run
\* of the dataset remains, in the local messages directory or, with object
\* storage as output, remotely; and a job never ends with both the error and
\* the processed marker of its dataset present.
C34_InitClearsStaleMarkers ==
    /\ (last_op = "init" /\ mpc = "idle") =>
           /\ local \cap {"error", "processing", "processed"} = {}
           /\ msg_output_uri = "s3" => remote \cap {"error", "processing", "processed"} = {}
    /\ pc = "done" =>
           /\ ~({"error", "processed"} \subseteq local)
           /\ ~({"error", "processed"} \subseteq remote)

\* C35: with several threads calling the same ProgressPercentage object
\* concurrently, once every call has returned the running counter equals the
\* sum of the byte amounts reported, in every interleaving, and the counter
\* never decreases.
C35_NoLostProgressUpdate ==
    /\ []((\A t \in Threads : calls[t].pc = "idle") => seen_so_far = reported)
    /\ [][seen_so_far' >= seen_so_far]_vars
C35_Witness ==
    /\ \A t \in Threads : calls[t].pc = "idle" /\ calls[t].made = MaxChunks
    /\ seen_so_far = reported
    /\ reported > Cardinality(Threads) * MaxChunks

\* C36: final_message never writes the processed marker for a job whose
\* processing phase or preview phase ended with a nonzero exit status, whatever
\* the status, multi-digit ones included.
C36_NoProcessedAfterNonzeroStatus ==
    (metrics.process # <<>> /\ metrics.preview # <<>>
        /\ (metrics.process[1] # 0 \/ metrics.preview[1] # 0)) =>
        /\ stat # 3
        /\ name # "processed"

\* The processing of a dataset failed: it raised, or its stage program ended
\* with a nonzero status that is not in ignore_err_nums.
DatasetFailed(o) ==
    \/ o.raised # NoExc
    \/ o.status # <<>> /\ o.status[1] # 0 /\ o.status[1] \notin ignore_err_nums(o.manager)
\* The exit code of the failure of a dataset.
FailureCode(o) == IF o.raised # NoExc THEN o.code ELSE STAGE1_ERROR

\* C37: with several datasets on the command line, the datasets are processed
\* one at a time in the order given; when the processing of one fails, no later
\* dataset is started (no marker written, no phase run) and the process exits
\* with that failure's code.
C37_FailureStopsLaterDatasets ==
    /\ started = [i \in 1..Len(started) |-> i]
    /\ Len(handled) <= Len(started) /\ Len(started) <= Len(handled) + 1
    /\ \A i \in 1..Len(handled) :
           DatasetFailed(handled[i]) =>
               /\ Len(started) = i
               /\ gpc = "exited" => exit_calls = <<FailureCode(handled[i])>>

\* The files tar_outputs archives and the folders it cleans: the file list and
\* what the previews and env folders of the dataset hold.
Archived ==
    file_list \cup {f \in tar_disk \cup tar_removed :
                       f.root = tar_root /\ f.sub \in {"previews", "env"}}

\* C38: tar_outputs removes the archived local files only after upload_tar has
\* returned: none of the files of the file list and nothing of the previews and
\* env folders is removed before, and when the upload failed with
\* S3_UPLOAD_ERROR (or any other exception) none of them has been removed.
C38_CleanUpOnlyAfterUpload ==
    /\ tar_pc \in {"find", "make_tar", "upload_tar", "raised"} => tar_removed \cap Archived = {}
    /\ tar_exc # NoExc => (tar_pc = "raised" /\ Archived \subseteq tar_disk)
C38_Witness ==
    /\ tar_pc = "raised"
    /\ tar_exc = CaldpExit(S3_UPLOAD_ERROR)
    /\ simulated_code = 0
    /\ Cardinality(file_list) = 3
    /\ file_list \subseteq tar_disk
    /\ File("outputs", "env", <<"dataset", "_cal_env", ".txt">>) \in tar_disk

\* C39: messages.main removes no folder when the output is not object storage,
\* never removes the inputs folder when the input uri is a file: path, and
\* removes folders only after final_message has returned.
C39_CleanUpOnlyForObjectStorage ==
    /\ msg_output_uri # "s3" => cleaned = {}
    /\ input_uri = "file" => "inputs" \notin cleaned
    /\ cleaned # {} => (pc = "done" /\ mpc = "idle" /\ last_op = "final_message")
    /\ pc = "done" =>
           cleaned = (IF msg_output_uri = "s3"
                      THEN IF input_uri = "file" THEN {"outputs", "messages"}
                           ELSE {"outputs", "messages", "inputs"}
                      ELSE {})
C39_Witness ==
    /\ pc = "done"
    /\ input_uri = "file"
    /\ msg_output_uri = "s3"
    /\ cleaned = {"outputs", "messages"}
    /\ last_op = "final_message"

\* final_message cannot obtain both phase statuses from the metrics files.
StatusMissing ==
    \/ metrics.process = <<>>
    \/ metrics.preview = <<>>
    \/ metrics.nodigit # {}

\* C40: a final_message that cannot obtain both phase statuses (a metrics file
\* is missing, or its last character is not a digit) raises before it writes or
\* removes a marker: the markers, stat, name and file are left as they were.
C40_RaisesBeforeAnyMarkerChange ==
    /\ [][(final_message_call /\ stat = 2 /\ StatusMissing) =>
            (pc' = "raised" /\ UNCHANGED msgvars)]_vars
    /\ [](InFinalMessage => ~StatusMissing)
C40_Witness ==
    /\ pc = "raised"
    /\ stat = 2 /\ name = "processing" /\ file = join(msg_dir, "processing")
    /\ "processing" \in local
    /\ metrics.process = <<>>
    /\ metrics.nodigit = {"preview"}

====
